---------------------------- MODULE Spec2Model ----------------------------
(***************************************************************************)
(* Verification model of the Telegram Mini App backend core:               *)
(*   - the process-local rate limiter        (src/lib/http/rate-limit.ts)  *)
(*   - the identity bootstrap                (src/unnamed/part_000)        *)
(*   - the retry/timeout envelope            (src/unnamed/part_003)        *)
(*   - the initData verifier   (src/lib/telegram/validate-init-data.ts)    *)
(* Each component has its own specification over the shared variable list; *)
(* a component's specification leaves the other components' variables at   *)
(* their initial values.                                                   *)
(***************************************************************************)
EXTENDS Integers, Sequences, FiniteSets, TLC

VARIABLES
  RATE_LIMIT_STORE,  \* rate-limit.ts:25  Map<storeKey, {count, resetAt}>
  clock,             \* Date.now() in ms, as read by consumeRateLimit
  env,               \* the cached server environment (env.ts:26-42)
  rlLast,            \* observation: the consumeRateLimit call of the latest step, if any
  series,            \* observation: per key, the calls of the running window
  inflight,          \* number of handlers suspended at their first await
  users,             \* the auth platform's accounts: email -> password
  sessions,          \* the auth platform's count of sessions issued
  calls,             \* the ensureTelegramAuthUser calls and where each stands
  faults,            \* observation: platform failures injected so far
  created,           \* observation: per email, createUser calls that succeeded
  rOptions,          \* withTimeoutAndRetry: options.retries and the operation's kind
  rPc,               \* withTimeoutAndRetry: where the call stands
  rAttempt,          \* the loop variable `attempt`
  rArmed,            \* attempts whose setTimeout timer is pending
  rAborted,          \* attempts whose AbortController has been aborted
  rLastError,        \* the variable `lastError`
  rOutcome,          \* what the call returned or threw
  rLog,              \* observation: the call's events, in order
  vClock,            \* Date.now() in ms, as read by validateTelegramInitData
  vMaxAge,           \* maxAgeSeconds
  vPayload,          \* the fields the client signed
  vInitData,         \* the initData string the client holds
  vTampered,         \* observation: the field changed after signing, if any
  vResult,           \* what validateTelegramInitData returned or threw
  eThrown,           \* the value a route caught
  eContext,          \* the route's request context, if it has one
  eOut,              \* what handleRouteError answered and logged
  xHeaders,          \* the authorization and x-telegram-init-data headers of a request
  xResult,           \* what extractInitDataFromRequest returned or threw
  aEnv,              \* the server environment of the route handlers
  aClock,            \* Date.now() of the route handlers, in ms
  aStore,            \* RATE_LIMIT_STORE as the route handlers see it
  aDocuments,        \* public.documents: the owner of each row
  aRequests,         \* the requests being served
  aLast,             \* the last response sent
  vRepeated,         \* the pair added to the initData string under a name it already has
  sPc,               \* where the streaming of /api/ai/complete is
  sFrames,           \* the NDJSON frames enqueued, in order
  sText,             \* accumulatedText
  sStatus,           \* the status of the response the stream is the body of
  sClosed,           \* controller.close() was called
  sCancelled,        \* the consumer cancelled the stream
  sFailed,           \* the provider's textStream threw
  bAttempt,          \* the attempt of the latest backoff delay computed (-1: none yet)
  bDelay,            \* the latest getBackoffMs(attempt)
  bPrev              \* the delay computed for the attempt before

rlVars == <<RATE_LIMIT_STORE, clock, env, rlLast, series, inflight>>

bootVars == <<users, sessions, calls, faults, created>>

retryVars == <<rOptions, rPc, rAttempt, rArmed, rAborted, rLastError, rOutcome, rLog>>

verifyVars == <<vClock, vMaxAge, vPayload, vInitData, vTampered, vResult>>

errVars == <<eThrown, eContext, eOut>>

extractVars == <<xHeaders, xResult>>

routeVars == <<aEnv, aClock, aStore, aDocuments, aRequests, aLast>>

repeatVars == <<vRepeated>>

streamVars == <<sPc, sFrames, sText, sStatus, sClosed, sCancelled, sFailed>>

backoffVars == <<bAttempt, bDelay, bPrev>>

vars == <<rlVars, bootVars, retryVars, verifyVars, errVars, extractVars, routeVars, repeatVars, streamVars, backoffVars>>

\* What an action of one component leaves alone: the other components.
rlOthers == <<bootVars, retryVars, verifyVars, errVars, extractVars, routeVars, repeatVars, streamVars, backoffVars>>
bootOthers == <<rlVars, retryVars, verifyVars, errVars, extractVars, routeVars, repeatVars, streamVars, backoffVars>>
retryOthers == <<rlVars, bootVars, verifyVars, errVars, extractVars, routeVars, repeatVars, streamVars, backoffVars>>
verifyOthers == <<rlVars, bootVars, retryVars, errVars, extractVars, routeVars, repeatVars, streamVars, backoffVars>>
errOthers == <<rlVars, bootVars, retryVars, verifyVars, extractVars, routeVars, repeatVars, streamVars, backoffVars>>
extractOthers == <<rlVars, bootVars, retryVars, verifyVars, errVars, routeVars, repeatVars, streamVars, backoffVars>>
routeOthers == <<rlVars, bootVars, retryVars, verifyVars, errVars, extractVars, repeatVars, streamVars, backoffVars>>
repeatOthers == <<rlVars, bootVars, retryVars, errVars, extractVars, routeVars, streamVars, backoffVars>>
streamOthers == <<rlVars, bootVars, retryVars, verifyVars, errVars, extractVars, routeVars, repeatVars, backoffVars>>
backoffOthers == <<rlVars, bootVars, retryVars, verifyVars, errVars, extractVars, routeVars, repeatVars, streamVars>>

---------------------------------------------------------------------------
(* Bounds of the model *)

MaxLimit == 2        \* per-route limits range over 1..MaxLimit
WindowSeconds == {1, 2}   \* sampled values of API_RATE_LIMIT_WINDOW_SECONDS
MaxTicks == 4        \* the clock advances at most this many times
TickMs == 500        \* one clock step, in ms
MaxCount == MaxLimit + 2   \* calls counted in one window of one key
MaxInflight == 2     \* handlers suspended at once
NumCalls == 2        \* concurrent ensureTelegramAuthUser calls
MaxFaults == 1       \* platform failures injected in one run
MaxRetries == 2      \* options.retries ranges over 0..MaxRetries
MaxVerifyTicks == 6  \* ticks of the verifier's clock

---------------------------------------------------------------------------
(* Arithmetic helpers: Math.max, Math.ceil(a / b) for a >= 0, b > 0 *)

Max(a, b) == IF a >= b THEN a ELSE b

CeilDiv(a, b) == (a + b - 1) \div b

---------------------------------------------------------------------------
(* Rate limiter *)

VALIDATE_ROUTE == "/api/telegram/validate"
EMBED_ROUTE == "/api/ai/embed"

Routes == {VALIDATE_ROUTE, EMBED_ROUTE}

\* getClientRateLimitKey: "<client ip>:<authorization fingerprint>"
ClientKeys == {"10.0.0.1:no-auth"}

\* `${options.route}:${options.key}`
StoreKey(route, key) == <<route, key>>

StoreKeys == {StoreKey(r, k) : r \in Routes, k \in ClientKeys}

Envs ==
  [API_RATE_LIMIT_WINDOW_SECONDS : WindowSeconds,
   API_RATE_LIMIT_VALIDATE_MAX : 1..MaxLimit,
   API_RATE_LIMIT_AI_EMBED_MAX : 1..MaxLimit]

RouteLimit(e, route) ==
  IF route = VALIDATE_ROUTE THEN e.API_RATE_LIMIT_VALIDATE_MAX
  ELSE e.API_RATE_LIMIT_AI_EMBED_MAX

RouteWindowMs(e) == e.API_RATE_LIMIT_WINDOW_SECONDS * 1000

\* Mutant: an entry whose resetAt is now is kept.
cleanupExpiredEntries_Strict(store, now) ==
  [k \in {x \in DOMAIN store : ~(store[x].resetAt < now)} |-> store[k]]

cleanupExpiredEntries(store, now) ==
  [k \in {x \in DOMAIN store : ~(store[x].resetAt <= now)} |-> store[k]]

\* Mutant: the new window forgets the window length.
NewWindowEntry_NoWindow(now, windowMs) == [count |-> 1, resetAt |-> now]

NewWindowEntry(now, windowMs) == [count |-> 1, resetAt |-> now + windowMs]

\* Mutant: the increment is lost.
Incremented_Lost(existing) == existing

\* Mutant: every counted call pushes the end of the window a second further.
Incremented_Extends(existing) ==
  [count |-> existing.count + 1, resetAt |-> existing.resetAt + 1000]

Incremented(existing) == [existing EXCEPT !.count = existing.count + 1]

\* Mutant: off by one in the comparison with the limit.
OverLimit_OffByOne(count, limit) == count >= limit

OverLimit(count, limit) == count > limit

RetryAfterSeconds(resetAt, now) == Max(CeilDiv(resetAt - now, 1000), 1)

getRateLimitHeaders(result) ==
  [xRatelimitLimit |-> result.limit,
   xRatelimitRemaining |-> result.remaining,
   xRatelimitReset |-> result.resetAt]

NoHeaders ==
  [xRatelimitLimit |-> -1, xRatelimitRemaining |-> -1, xRatelimitReset |-> -1,
   retryAfter |-> -1]

NoResult == [limit |-> -1, remaining |-> -1, resetAt |-> -1, retryAfterSeconds |-> -1]

\* What one call does: the store it leaves, and either the RateLimitResult it
\* returns (kind "return") or what it throws (kind "HttpRouteError" / "Error").
Returned(store, result) ==
  [store |-> store, kind |-> "return", result |-> result,
   status |-> 0, code |-> "", headers |-> NoHeaders]

ThrewError(store) ==
  [store |-> store, kind |-> "Error", result |-> NoResult,
   status |-> 0, code |-> "", headers |-> NoHeaders]

ThrewTooManyRequests(store, limit, resetAt, retryAfterSeconds) ==
  LET h == getRateLimitHeaders([limit |-> limit, remaining |-> 0,
                                resetAt |-> resetAt,
                                retryAfterSeconds |-> retryAfterSeconds])
  IN [store |-> store, kind |-> "HttpRouteError", result |-> NoResult,
      status |-> 429, code |-> "rate_limited",
      headers |-> [xRatelimitLimit |-> h.xRatelimitLimit,
                   xRatelimitRemaining |-> h.xRatelimitRemaining,
                   xRatelimitReset |-> h.xRatelimitReset,
                   retryAfter |-> retryAfterSeconds]]

\* Mutant: the expired entries are swept before the options are looked at.
consumeRateLimit_SweepFirst(store, options) ==
  LET now == options.now
      storeKey == StoreKey(options.route, options.key)
      swept == cleanupExpiredEntries(store, now)
  IN
  IF options.limit < 1 THEN ThrewError(swept)
  ELSE IF options.windowMs < 1000 THEN ThrewError(swept)
  ELSE IF storeKey \notin DOMAIN swept \/ swept[storeKey].resetAt <= now
  THEN LET entry == NewWindowEntry(now, options.windowMs)
       IN Returned([k \in DOMAIN swept \cup {storeKey} |->
                      IF k = storeKey THEN entry ELSE swept[k]],
                   [limit |-> options.limit,
                    remaining |-> Max(options.limit - 1, 0),
                    resetAt |-> entry.resetAt,
                    retryAfterSeconds |-> CeilDiv(options.windowMs, 1000)])
  ELSE LET existing == Incremented(swept[storeKey])
           after == [swept EXCEPT ![storeKey] = existing]
           retryAfterSeconds == RetryAfterSeconds(existing.resetAt, now)
           remaining == Max(options.limit - existing.count, 0)
       IN IF OverLimit(existing.count, options.limit)
          THEN ThrewTooManyRequests(after, options.limit, existing.resetAt,
                                    retryAfterSeconds)
          ELSE Returned(after,
                        [limit |-> options.limit,
                         remaining |-> remaining,
                         resetAt |-> existing.resetAt,
                         retryAfterSeconds |-> retryAfterSeconds])

consumeRateLimit(store, options) ==
  LET now == options.now
      storeKey == StoreKey(options.route, options.key)
      swept == cleanupExpiredEntries(store, now)
  IN
  IF options.limit < 1 THEN ThrewError(store)
  ELSE IF options.windowMs < 1000 THEN ThrewError(store)
  ELSE IF storeKey \notin DOMAIN swept \/ swept[storeKey].resetAt <= now
  THEN LET entry == NewWindowEntry(now, options.windowMs)
       IN Returned([k \in DOMAIN swept \cup {storeKey} |->
                      IF k = storeKey THEN entry ELSE swept[k]],
                   [limit |-> options.limit,
                    remaining |-> Max(options.limit - 1, 0),
                    resetAt |-> entry.resetAt,
                    retryAfterSeconds |-> CeilDiv(options.windowMs, 1000)])
  ELSE LET existing == Incremented(swept[storeKey])
           after == [swept EXCEPT ![storeKey] = existing]
           retryAfterSeconds == RetryAfterSeconds(existing.resetAt, now)
           remaining == Max(options.limit - existing.count, 0)
       IN IF OverLimit(existing.count, options.limit)
          THEN ThrewTooManyRequests(after, options.limit, existing.resetAt,
                                    retryAfterSeconds)
          ELSE Returned(after,
                        [limit |-> options.limit,
                         remaining |-> remaining,
                         resetAt |-> existing.resetAt,
                         retryAfterSeconds |-> retryAfterSeconds])

---------------------------------------------------------------------------
(* Observation of the limiter's calls *)

NoCall ==
  [called |-> FALSE, storeKey |-> <<"", "">>, limit |-> 0, windowMs |-> 0,
   now |-> 0, hadEntry |-> FALSE, before |-> [count |-> 0, resetAt |-> 0],
   out |-> ThrewError(<<>>), index |-> 0, granted |-> 0, storeBefore |-> <<>>]

NoSeries == [calls |-> 0, granted |-> 0, resetAt |-> 0]

\* The running series of a key ends when the clock reaches its resetAt.
SeriesAt(s, now) ==
  [k \in StoreKeys |-> IF s[k].calls > 0 /\ s[k].resetAt <= now THEN NoSeries ELSE s[k]]

\* The series of `storeKey` after one more call at `now` with outcome `out`.
SeriesAfter(s, storeKey, now, windowMs, out) ==
  LET cur == SeriesAt(s, now)[storeKey]
      started == IF cur.calls = 0
                 THEN [calls |-> 0, granted |-> 0, resetAt |-> now + windowMs]
                 ELSE cur
  IN [SeriesAt(s, now) EXCEPT ![storeKey] =
        [calls |-> started.calls + 1,
         granted |-> started.granted + (IF out.kind = "return" THEN 1 ELSE 0),
         resetAt |-> started.resetAt]]

---------------------------------------------------------------------------
(* Actions of the rate limiter's specification *)

\* The synchronous head of a route handler: POST up to its first await
\* (createRouteContext, getServerEnv, consumeRateLimit).  A rejected request is
\* answered at once by handleRouteError; an admitted one suspends at
\* `await authenticateTelegramRequest(request)`.
HandlerStart(route, key) ==
  LET storeKey == StoreKey(route, key)
      options == [route |-> route, key |-> key, limit |-> RouteLimit(env, route),
                  windowMs |-> RouteWindowMs(env), now |-> clock]
      out == consumeRateLimit(RATE_LIMIT_STORE, options)
      s == SeriesAfter(series, storeKey, clock, options.windowMs, out)
  IN /\ (out.kind = "return") => inflight < MaxInflight
     /\ SeriesAt(series, clock)[storeKey].calls < MaxCount
     /\ RATE_LIMIT_STORE' = out.store
     /\ rlLast' = [called |-> TRUE, storeKey |-> storeKey, limit |-> options.limit,
                   windowMs |-> options.windowMs, now |-> clock,
                   hadEntry |-> storeKey \in DOMAIN RATE_LIMIT_STORE,
                   before |-> IF storeKey \in DOMAIN RATE_LIMIT_STORE
                              THEN RATE_LIMIT_STORE[storeKey]
                              ELSE [count |-> 0, resetAt |-> 0],
                   out |-> [out EXCEPT !.store = <<>>],
                   index |-> s[storeKey].calls, granted |-> s[storeKey].granted,
                   storeBefore |-> RATE_LIMIT_STORE]
     /\ series' = s
     /\ inflight' = IF out.kind = "return" THEN inflight + 1 ELSE inflight
     /\ UNCHANGED <<clock, env, rlOthers>>

\* The rest of an admitted handler, after its awaits: it never touches the store.
HandlerFinish ==
  /\ inflight > 0
  /\ inflight' = inflight - 1
  /\ rlLast' = NoCall
  /\ UNCHANGED <<RATE_LIMIT_STORE, clock, env, series, rlOthers>>

\* Time passes between two synchronous segments.
Tick ==
  /\ clock + TickMs <= MaxTicks * TickMs
  /\ clock' = clock + TickMs
  /\ series' = SeriesAt(series, clock')
  /\ rlLast' = NoCall
  /\ UNCHANGED <<RATE_LIMIT_STORE, env, inflight, rlOthers>>

RlInit ==
  /\ RATE_LIMIT_STORE = <<>>
  /\ clock = 0
  /\ env \in Envs
  /\ rlLast = NoCall
  /\ series = [k \in StoreKeys |-> NoSeries]
  /\ inflight = 0

RlNext ==
  \/ \E route \in Routes, key \in ClientKeys : HandlerStart(route, key)
  \/ HandlerFinish
  \/ Tick

\* The limiter while another component's specification runs.
RlIdle ==
  /\ RATE_LIMIT_STORE = <<>>
  /\ clock = 0
  /\ env = [API_RATE_LIMIT_WINDOW_SECONDS |-> 1,
            API_RATE_LIMIT_VALIDATE_MAX |-> 1,
            API_RATE_LIMIT_AI_EMBED_MAX |-> 1]
  /\ rlLast = NoCall
  /\ series = [k \in StoreKeys |-> NoSeries]
  /\ inflight = 0

---------------------------------------------------------------------------
(* Identity bootstrap (src/unnamed/part_000) *)

TELEGRAM_BOT_TOKEN == "123456:TEST_TOKEN"

TelegramIds == {"42", "7"}

\* createHmac("sha256", key).update(message).digest("hex"): a keyed digest,
\* taken to be collision-free.
HmacHex(key, message) == <<"hmac-sha256", key, message>>

deriveTelegramCredentials(telegramId, botToken) ==
  [email |-> <<"tg_", telegramId, "@telegram.local">>,
   password |-> <<"Tg!", HmacHex(botToken, <<"megamozg-telegram-auth:", telegramId>>)>>]

\* Error messages of the auth platform's admin.createUser, as words.
MSG_ALREADY_BEEN_REGISTERED ==
  <<"A", "user", "with", "this", "email", "address", "has", "already", "been",
    "registered">>
MSG_ALREADY_REGISTERED == <<"User", "Already", "Registered">>
MSG_DATABASE_ERROR == <<"Database", "error", "creating", "new", "user">>

\* The /i flag of the regular expression.
LowerCase(word) ==
  CASE word = "Already" -> "already"
    [] word = "Registered" -> "registered"
    [] word = "User" -> "user"
    [] word = "A" -> "a"
    [] word = "Database" -> "database"
    [] OTHER -> word

\* Whether `phrase` (lower-case words) occurs in `message`, ignoring case.
ContainsPhrase(message, phrase) ==
  \E i \in 1..(Len(message) - Len(phrase) + 1) :
    \A j \in 1..Len(phrase) : LowerCase(message[i + j - 1]) = phrase[j]

\* Mutant: the regular expression has no /i flag.
isAlreadyRegisteredError_CaseSensitive(message) ==
  \E phrase \in {<<"already", "registered">>, <<"already", "been", "registered">>} :
    \E i \in 1..(Len(message) - Len(phrase) + 1) :
      \A j \in 1..Len(phrase) : message[i + j - 1] = phrase[j]

\* Mutant: the second alternative of the regular expression is missing.
isAlreadyRegisteredError_OneAlternative(message) ==
  ContainsPhrase(message, <<"already", "registered">>)

isAlreadyRegisteredError(message) ==
  \/ ContainsPhrase(message, <<"already", "registered">>)
  \/ ContainsPhrase(message, <<"already", "been", "registered">>)

\* The platform's answer to anonClient.auth.signInWithPassword.
signInWithPassword(table, email, password) ==
  email \in DOMAIN table /\ table[email] = password

NoToken == [sub |-> <<>>, seq |-> 0]

CallIds == 1..NumCalls

NoCallYet ==
  [pc |-> "idle", telegramId |-> "", fresh |-> FALSE, accessToken |-> NoToken,
   signIns |-> 0, creates |-> 0, createError |-> <<>>]

\* signInTelegramUser (lines 43-57): the session's access token, or null
\* (NoToken) when the platform reports an error or no session.  `fault` is a
\* failure of the platform itself: the sign-in fails whatever the account.
signInTelegramUser(table, issued, email, password, fault) ==
  IF ~fault /\ signInWithPassword(table, email, password)
  THEN [sub |-> email, seq |-> issued + 1]
  ELSE NoToken

\* ensureTelegramAuthUser is called: it runs to its first await, the sign-in.
EnsureBegin(c, telegramId) ==
  /\ calls[c].pc = "idle"
  /\ calls' = [calls EXCEPT ![c] =
       [NoCallYet EXCEPT !.pc = "signIn",
                         !.telegramId = telegramId,
                         !.fresh = deriveTelegramCredentials(
                                     telegramId, TELEGRAM_BOT_TOKEN).email
                                   \notin DOMAIN users]]
  /\ UNCHANGED <<users, sessions, faults, created, bootOthers>>

\* The first sign-in answers (lines 73-79).
EnsureSignIn(c, fault) ==
  LET call == calls[c]
      credentials == deriveTelegramCredentials(call.telegramId, TELEGRAM_BOT_TOKEN)
      existingSession == signInTelegramUser(users, sessions, credentials.email,
                                            credentials.password, fault)
  IN /\ call.pc = "signIn"
     /\ fault => faults < MaxFaults
     /\ faults' = IF fault THEN faults + 1 ELSE faults
     /\ sessions' = IF existingSession # NoToken THEN sessions + 1 ELSE sessions
     /\ calls' = [calls EXCEPT ![c] =
          IF existingSession # NoToken
          THEN [call EXCEPT !.pc = "returned", !.accessToken = existingSession,
                            !.signIns = @ + 1]
          ELSE [call EXCEPT !.pc = "createUser", !.signIns = @ + 1]]
     /\ UNCHANGED <<users, created, bootOthers>>

\* The messages the platform refuses an email it already holds with.
RefusalMessages == {MSG_ALREADY_BEEN_REGISTERED, MSG_ALREADY_REGISTERED}

\* adminClient.auth.admin.createUser answers (lines 81-97).  The platform
\* refuses an email it already holds, with `refusal`; `fault` is any other
\* failure.
EnsureCreateUser(c, fault, refusal) ==
  LET call == calls[c]
      credentials == deriveTelegramCredentials(call.telegramId, TELEGRAM_BOT_TOKEN)
      exists == credentials.email \in DOMAIN users
      error == IF fault THEN MSG_DATABASE_ERROR
               ELSE IF exists THEN refusal
               ELSE <<>>
      hasError == fault \/ exists
  IN /\ call.pc = "createUser"
     /\ fault => faults < MaxFaults
     /\ faults' = IF fault THEN faults + 1 ELSE faults
     /\ users' = IF hasError THEN users
                 ELSE [e \in DOMAIN users \cup {credentials.email} |->
                         IF e = credentials.email THEN credentials.password
                         ELSE users[e]]
     /\ created' = IF hasError THEN created
                   ELSE [created EXCEPT ![call.telegramId] = @ + 1]
     /\ calls' = [calls EXCEPT ![c] =
          IF hasError /\ ~isAlreadyRegisteredError(error)
          THEN [call EXCEPT !.pc = "threwCreate", !.creates = @ + 1,
                            !.createError = error]
          ELSE [call EXCEPT !.pc = "signInAgain", !.creates = @ + 1,
                            !.createError = error]]
     /\ UNCHANGED <<sessions, bootOthers>>

\* Mutant: a failed second sign-in is tried again.
SecondSignInFailed_Retries(call) == "signInAgain"

\* Lines 101-103: the call throws.
SecondSignInFailed(call) == "threwSignIn"

\* The second sign-in answers (lines 99-107).
EnsureSignInAgain(c, fault) ==
  LET call == calls[c]
      credentials == deriveTelegramCredentials(call.telegramId, TELEGRAM_BOT_TOKEN)
      signedInSession == signInTelegramUser(users, sessions, credentials.email,
                                            credentials.password, fault)
  IN /\ call.pc = "signInAgain"
     /\ fault => faults < MaxFaults
     /\ faults' = IF fault THEN faults + 1 ELSE faults
     /\ sessions' = IF signedInSession # NoToken THEN sessions + 1 ELSE sessions
     /\ calls' = [calls EXCEPT ![c] =
          IF signedInSession # NoToken
          THEN [call EXCEPT !.pc = "returned", !.accessToken = signedInSession,
                            !.signIns = @ + 1]
          ELSE [call EXCEPT !.pc = SecondSignInFailed(call), !.signIns = @ + 1]]
     /\ UNCHANGED <<users, created, bootOthers>>

BootInit ==
  /\ \E registered \in SUBSET TelegramIds :
       users = [e \in {deriveTelegramCredentials(t, TELEGRAM_BOT_TOKEN).email :
                         t \in registered} |->
                  deriveTelegramCredentials(e[2], TELEGRAM_BOT_TOKEN).password]
  /\ sessions = 0
  /\ calls = [c \in CallIds |-> NoCallYet]
  /\ faults = 0
  /\ created = [t \in TelegramIds |-> 0]

BootIdle ==
  /\ users = <<>>
  /\ sessions = 0
  /\ calls = [c \in CallIds |-> NoCallYet]
  /\ faults = 0
  /\ created = [t \in TelegramIds |-> 0]

BootNext ==
  \/ \E c \in CallIds, t \in TelegramIds : EnsureBegin(c, t)
  \/ \E c \in CallIds, fault \in BOOLEAN : EnsureSignIn(c, fault)
  \/ \E c \in CallIds, fault \in BOOLEAN, refusal \in RefusalMessages :
       EnsureCreateUser(c, fault, refusal)
  \/ \E c \in CallIds, fault \in BOOLEAN : EnsureSignInAgain(c, fault)

---------------------------------------------------------------------------
(* Retry/timeout envelope (src/unnamed/part_003) *)

OPERATION_NAME == "Embedding generation"
\* The default of env.OPENAI_REQUEST_TIMEOUT_MS, as it is printed in a message.
OPENAI_REQUEST_TIMEOUT_MS == "20000"

\* The value of a property of a thrown object, as Number() sees it: the
\* property is absent, or Number(value) is NaN, or it is a finite number.
Absent == [kind |-> "absent", n |-> 0]
NotANumber == [kind |-> "nan", n |-> 0]
Num(n) == [kind |-> "num", n |-> n]

\* A thrown value.  isObject: typeof error === "object" and not null;
\* isError: error instanceof Error; message: its words.
Thrown(isObject, isError, name, statusCode, status, message) ==
  [isObject |-> isObject, isError |-> isError, name |-> name,
   statusCode |-> statusCode, status |-> status, message |-> message]

\* What fetch rejects with once its signal is aborted (a DOMException).
ABORT_ERROR ==
  Thrown(TRUE, TRUE, "AbortError", Absent, Absent,
         <<"This", "operation", "was", "aborted">>)

\* What an operation may reject with on its own.
OwnErrors ==
  { Thrown(TRUE, TRUE, "Error", Absent, Num(503), <<"Service", "Unavailable">>),
    Thrown(TRUE, TRUE, "AI_APICallError", Num(503), Absent, <<"Bad", "gateway">>),
    Thrown(TRUE, TRUE, "Error", NotANumber, Num(429), <<"Too", "many", "requests">>),
    Thrown(TRUE, TRUE, "Error", Absent, Num(404), <<"Network", "timeout">>),
    Thrown(TRUE, TRUE, "AI_APICallError", Num(400), Absent, <<"fetch", "failed">>),
    Thrown(TRUE, TRUE, "TypeError", Absent, Absent, <<"fetch", "failed">>),
    Thrown(TRUE, TRUE, "Error", Absent, Absent, <<"Invalid", "API", "key">>),
    Thrown(FALSE, FALSE, "", Absent, Absent, <<"timeout">>) }

\* new Error(`${operationName} timed out after ${timeoutMs}ms`)
TimeoutError(operationName, timeoutMs) ==
  Thrown(TRUE, TRUE, "Error", Absent, Absent,
         <<operationName, "timed", "out", "after", timeoutMs, "ms">>)

\* new Error(`${operationName} failed after ${retries + 1} attempts`)
FailedAfterError(operationName) ==
  Thrown(TRUE, TRUE, "Error", Absent, Absent,
         <<operationName, "failed", "after", "all", "attempts">>)

isAbortError(error) == error.isError /\ error.name = "AbortError"

NoStatusCode == -1

getStatusCode(error) ==
  IF ~error.isObject THEN NoStatusCode
  ELSE IF error.statusCode.kind = "num" THEN error.statusCode.n
  ELSE IF error.status.kind = "num" THEN error.status.n
  ELSE NoStatusCode

\* error.message.toLowerCase(), word by word.
LowerCaseWord(word) ==
  CASE word = "Network" -> "network"
    [] word = "Timeout" -> "timeout"
    [] word = "Service" -> "service"
    [] word = "Unavailable" -> "unavailable"
    [] OTHER -> word

IncludesPhrase(message, phrase) ==
  \E i \in 1..(Len(message) - Len(phrase) + 1) :
    \A j \in 1..Len(phrase) : LowerCaseWord(message[i + j - 1]) = phrase[j]

RetryableMessage(message) ==
  \/ IncludesPhrase(message, <<"timeout">>)
  \/ IncludesPhrase(message, <<"network">>)
  \/ IncludesPhrase(message, <<"fetch", "failed">>)
  \/ IncludesPhrase(message, <<"temporarily", "unavailable">>)
  \/ IncludesPhrase(message, <<"econnreset">>)
  \/ IncludesPhrase(message, <<"enotfound">>)

\* Mutant: the message is looked at before the status.
isRetryable_MessageFirst(error) ==
  \/ isAbortError(error)
  \/ (error.isError /\ RetryableMessage(error.message))
  \/ LET statusCode == getStatusCode(error)
     IN statusCode # NoStatusCode
        /\ (statusCode >= 500 \/ statusCode = 429 \/ statusCode = 408)

isRetryable(error) ==
  IF isAbortError(error) THEN TRUE
  ELSE LET statusCode == getStatusCode(error)
       IN IF statusCode # NoStatusCode
          THEN statusCode >= 500 \/ statusCode = 429 \/ statusCode = 408
          ELSE IF ~error.isError THEN FALSE
          ELSE RetryableMessage(error.message)

\* Math.round(Math.random() * 120) is an integer in 0..120; the envelope's
\* specification samples its ends.
JitterSamples == {0, 120}

RECURSIVE Pow2(_)
Pow2(n) == IF n = 0 THEN 1 ELSE 2 * Pow2(n - 1)

\* Mutant: the delay grows by 200 ms an attempt.
getBackoffMs_Linear(attempt, jitter) == 200 * (attempt + 1) + jitter

\* Lines 77-81, `jitter` being Math.round(Math.random() * 120).
getBackoffMs(attempt, jitter) == 200 * Pow2(attempt) + jitter

NoError == Thrown(FALSE, FALSE, "", Absent, Absent, <<>>)

NoOutcome == [kind |-> "none", value |-> "", error |-> NoError, from |-> -1]

\* One event of a call.  ev: "invoke" (operation called, attempt k),
\* "fail" (operation k rejected with err), "onRetry" (observer called with
\* attempt number k and err), "sleep" (backoff of ms started), "fire" (timer
\* of attempt k fired), "resolve" (operation k resolved).
Event(ev, k, err, ms) == [ev |-> ev, k |-> k, err |-> err, ms |-> ms]

\* Mutant: the last attempt is retried as well (attempt <= retries).
ShouldRetry_OneMore(attempt, retries, error) ==
  attempt <= retries /\ isRetryable(error)

ShouldRetry(attempt, retries, error) ==
  attempt < retries /\ isRetryable(error)

\* Lines 100-104: what a failure that is not retried throws.
FinalError(error, operationName, timeoutMs) ==
  IF isAbortError(error) THEN TimeoutError(operationName, timeoutMs) ELSE error

\* Mutant: the observer is given the loop variable.
OnRetryAttempt_LoopVariable(attempt) == attempt

\* Line 107: the attempt number the observer is given.
OnRetryAttempt(attempt) == attempt + 1

\* Mutant: the timer of the attempt before is left pending.
StartAttempt_NoClear(attempt) ==
  /\ rAttempt' = attempt
  /\ rArmed' = rArmed \cup {attempt}
  /\ rPc' = "running"

\* A loop iteration begins (lines 89-94): a controller, its timer, and the
\* operation is invoked with the controller's signal; the call awaits it.
StartAttempt(attempt) ==
  /\ rAttempt' = attempt
  /\ rArmed' = (rArmed \ {rAttempt}) \cup {attempt}
  /\ rPc' = "running"

\* withTimeoutAndRetry(operation, options) is called.  The operation either
\* settles on its own in every attempt or in none (settles), and it either
\* rejects with an AbortError once its signal is aborted or ignores the
\* signal (honorsAbort).
RetryCall(retries, settles, honorsAbort) ==
  /\ rPc = "idle"
  /\ rOptions' = [retries |-> retries, settles |-> settles,
                  honorsAbort |-> honorsAbort]
  /\ rAttempt' = 0
  /\ rArmed' = {0}
  /\ rPc' = "running"
  /\ rLog' = <<Event("invoke", 0, NoError, 0)>>
  /\ UNCHANGED <<rAborted, rLastError, rOutcome, retryOthers>>

\* The awaited operation resolves: `return await operation(...)`, then the
\* finally block clears the attempt's timer.
OpResolve ==
  /\ rPc = "running"
  /\ rOptions.settles
  /\ rPc' = "returned"
  /\ rOutcome' = [kind |-> "return", value |-> "embedding", error |-> NoError,
                  from |-> rAttempt]
  /\ rArmed' = rArmed \ {rAttempt}
  /\ rLog' = Append(rLog, Event("resolve", rAttempt, NoError, 0))
  /\ UNCHANGED <<rOptions, rAttempt, rAborted, rLastError, retryOthers>>

\* The catch block (lines 95-108) for a rejection with `error`: either the
\* error is final (thrown, and finally clears the timer), or the observer is
\* called and the call suspends in the backoff sleep, its timer still pending.
Caught(error, jitter) ==
  /\ rLastError' = error
  /\ IF ShouldRetry(rAttempt, rOptions.retries, error)
     THEN /\ rPc' = "sleeping"
          /\ rLog' = rLog \o <<Event("fail", rAttempt, error, 0),
                              Event("onRetry", OnRetryAttempt(rAttempt), error, 0),
                              Event("sleep", rAttempt, NoError,
                                    getBackoffMs(rAttempt, jitter))>>
          /\ UNCHANGED <<rOutcome, rArmed>>
     ELSE /\ rPc' = "threw"
          /\ rLog' = Append(rLog, Event("fail", rAttempt, error, 0))
          /\ rOutcome' = [kind |-> "throw", value |-> "",
                          error |-> FinalError(error, OPERATION_NAME,
                                               OPENAI_REQUEST_TIMEOUT_MS),
                          from |-> IF isAbortError(error) THEN -1 ELSE rAttempt]
          /\ rArmed' = rArmed \ {rAttempt}
  /\ UNCHANGED <<rOptions, rAttempt, rAborted, retryOthers>>

\* The awaited operation rejects on its own.
OpReject(error, jitter) ==
  /\ rPc = "running"
  /\ rOptions.settles
  /\ Caught(error, jitter)

\* The awaited operation, its signal aborted, rejects with an AbortError.
OpAbortReject(jitter) ==
  /\ rPc = "running"
  /\ rOptions.honorsAbort
  /\ rAttempt \in rAborted
  /\ Caught(ABORT_ERROR, jitter)

\* A pending timer fires: () => controller.abort().
TimerFire(k) ==
  /\ k \in rArmed
  /\ rArmed' = rArmed \ {k}
  /\ rAborted' = rAborted \cup {k}
  /\ rLog' = Append(rLog, Event("fire", k, NoError, 0))
  /\ UNCHANGED <<rOptions, rPc, rAttempt, rLastError, rOutcome, retryOthers>>

\* The backoff sleep ends: the finally block clears the attempt's timer and
\* the loop goes on with attempt + 1.
SleepDone ==
  /\ rPc = "sleeping"
  /\ IF rAttempt + 1 <= rOptions.retries
     THEN /\ StartAttempt(rAttempt + 1)
          /\ rLog' = Append(rLog, Event("invoke", rAttempt + 1, NoError, 0))
          /\ UNCHANGED rOutcome
     ELSE \* lines 114-116, after the loop
          /\ rPc' = "threw"
          /\ rArmed' = rArmed \ {rAttempt}
          /\ rOutcome' = [kind |-> "throw", value |-> "",
                          error |-> IF rLastError.isError THEN rLastError
                                    ELSE FailedAfterError(OPERATION_NAME),
                          from |-> IF rLastError.isError THEN rAttempt ELSE -1]
          /\ UNCHANGED <<rAttempt, rLog>>
  /\ UNCHANGED <<rOptions, rAborted, rLastError, retryOthers>>

RetryIdle ==
  /\ rOptions = [retries |-> 0, settles |-> TRUE, honorsAbort |-> TRUE]
  /\ rPc = "idle"
  /\ rAttempt = 0
  /\ rArmed = {}
  /\ rAborted = {}
  /\ rLastError = NoError
  /\ rOutcome = NoOutcome
  /\ rLog = <<>>

RetryInit == RetryIdle

RetryNext ==
  \/ \E retries \in 0..MaxRetries, settles \in BOOLEAN, honorsAbort \in BOOLEAN :
       RetryCall(retries, settles, honorsAbort)
  \/ OpResolve
  \/ \E error \in OwnErrors, jitter \in JitterSamples : OpReject(error, jitter)
  \/ \E jitter \in JitterSamples : OpAbortReject(jitter)
  \/ \E k \in 0..MaxRetries : TimerFire(k)
  \/ SleepDone

---------------------------------------------------------------------------
(* initData verifier (src/lib/telegram/validate-init-data.ts) *)

\* A string is a sequence of tokens.  A token is a run of text, or the 64
\* hex digits of a digest (mac is the digest, s its letter case).
Tok(s) == [s |-> s, mac |-> <<>>]
HexTok(mac, case) == [s |-> case, mac |-> mac]

Str(s) == <<Tok(s)>>
EmptyString == <<>>

\* .digest("hex"): lowercase hex.
HexDigest(mac) == <<HexTok(mac, "hex-lower")>>

\* String.prototype.toLowerCase, on the tokens a hash can be made of.
toLowerCase(value) ==
  [i \in 1..Len(value) |->
     IF value[i].s = "hex-upper" THEN HexTok(value[i].mac, "hex-lower")
     ELSE value[i]]

\* /^[a-f0-9]{64}$/.test(hash)
IsHex64(value) == Len(value) = 1 /\ value[1].s = "hex-lower"

\* The texts the URL-encoded serializer leaves as they are (made of
\* alphanumerics and *-._ only); every other token is percent-encoded, a
\* space becomes "+".
UnreservedTexts ==
  {"0", "1", "2", "3", "4", "5", "-1", "1.5", "abc", "AAHdF6IQAAAAAN0XohDhrOrc",
   "private", "group", "query_id"}

IsUnreserved(tok) == tok.mac # <<>> \/ tok.s \in UnreservedTexts

urlEncode(value) ==
  [i \in 1..Len(value) |->
     [enc |-> IF IsUnreserved(value[i]) THEN "plain"
              ELSE IF value[i].s = " " THEN "plus"
              ELSE "percent",
      tok |-> value[i]]]

urlDecode(rawValue) == [i \in 1..Len(rawValue) |-> rawValue[i].tok]

\* URLSearchParams.prototype.toString(), and new URLSearchParams(string): a
\* query string is its name=value pairs in order, each value encoded.
toQueryString(params) ==
  [i \in 1..Len(params) |-> <<params[i][1], urlEncode(params[i][2])>>]

URLSearchParams(initData) ==
  [i \in 1..Len(initData) |-> <<initData[i][1], urlDecode(initData[i][2])>>]

HasKey(params, key) == \E i \in 1..Len(params) : params[i][1] = key

NoValue == <<Tok("<null>")>>

\* URLSearchParams.prototype.get: the first value of the name, or null.
Get(params, key) ==
  IF HasKey(params, key)
  THEN params[CHOOSE i \in 1..Len(params) :
                /\ params[i][1] = key
                /\ \A j \in 1..(i - 1) : params[j][1] # key][2]
  ELSE NoValue

\* Mutant: get() answers the last pair of the name.
Get_Last(params, key) ==
  IF HasKey(params, key)
  THEN params[CHOOSE i \in 1..Len(params) :
                /\ params[i][1] = key
                /\ \A j \in (i + 1)..Len(params) : params[j][1] # key][2]
  ELSE NoValue

\* params.get(name) as validateTelegramInitData calls it (lines 70, 90, 102).
ParamsGet(params, key) == Get(params, key)

IsNull(value) == value = NoValue

RECURSIVE RemoveKey(_, _)
RemoveKey(params, key) ==
  IF params = <<>> THEN <<>>
  ELSE IF Head(params)[1] = key THEN RemoveKey(Tail(params), key)
  ELSE <<Head(params)>> \o RemoveKey(Tail(params), key)

\* URLSearchParams.prototype.set: the first pair of that name takes the
\* value and the others are removed; a new name is appended.
RECURSIVE Set(_, _, _)
Set(params, key, value) ==
  IF params = <<>> THEN <<<<key, value>>>>
  ELSE IF Head(params)[1] = key
       THEN <<<<key, value>>>> \o RemoveKey(Tail(params), key)
  ELSE <<Head(params)>> \o Set(Tail(params), key, value)

\* The names of the model, in the order String.prototype.localeCompare
\* gives them.
LOCALE_ORDER ==
  <<"auth_date", "chat_type", "hash", "query_id", "user">>

Keys == {LOCALE_ORDER[i] : i \in 1..Len(LOCALE_ORDER)}

localeCompare(a, b) ==
  LET rank(k) == CHOOSE i \in 1..Len(LOCALE_ORDER) : LOCALE_ORDER[i] = k
  IN IF rank(a) < rank(b) THEN -1 ELSE IF rank(a) > rank(b) THEN 1 ELSE 0

\* Array.prototype.sort(([a], [b]) => a.localeCompare(b)): stable.
RECURSIVE InsertSorted(_, _)
InsertSorted(entry, sorted) ==
  IF sorted = <<>> THEN <<entry>>
  ELSE IF localeCompare(Head(sorted)[1], entry[1]) <= 0
       THEN <<Head(sorted)>> \o InsertSorted(entry, Tail(sorted))
  ELSE <<entry>> \o sorted

RECURSIVE SortByKey(_)
SortByKey(entries) ==
  IF entries = <<>> THEN <<>>
  ELSE InsertSorted(Head(entries), SortByKey(Tail(entries)))

\* .map(([key, value]) => `${key}=${value}`).join("\n")
RECURSIVE JoinLines(_)
JoinLines(entries) ==
  IF entries = <<>> THEN EmptyString
  ELSE LET line == Str(Head(entries)[1]) \o Str("=") \o Head(entries)[2]
       IN IF Len(entries) = 1 THEN line
          ELSE line \o Str("\n") \o JoinLines(Tail(entries))

\* Mutant: the lines are not sorted.
buildDataCheckString_Unsorted(params) == JoinLines(RemoveKey(params, "hash"))

buildDataCheckString(params) == JoinLines(SortByKey(RemoveKey(params, "hash")))

buildTelegramSecret(botToken) == HmacHex("WebAppData", botToken)

\* Number(string): the decimal texts of the model and what they convert to.
\* Number("") and Number(null) are 0; a text that is no numeral is NaN.
DecimalTexts == <<"1", "2", "3", "4", "5">>

Fraction == [kind |-> "fraction", n |-> 0]

Number(value) ==
  IF IsNull(value) \/ value = EmptyString THEN Num(0)
  ELSE IF Len(value) # 1 THEN NotANumber
  ELSE IF \E i \in 1..Len(DecimalTexts) : DecimalTexts[i] = value[1].s
       THEN Num(CHOOSE i \in 1..Len(DecimalTexts) : DecimalTexts[i] = value[1].s)
  ELSE IF value[1].s = "0" THEN Num(0)
  ELSE IF value[1].s = "-1" THEN Num(-1)
  ELSE IF value[1].s = "1.5" THEN Fraction
  ELSE NotANumber

\* JSON values.
JAbsent == [type |-> "absent", n |-> 0, s |-> "", b |-> FALSE]
JNumber(n) == [type |-> "number", n |-> n, s |-> "", b |-> FALSE]
JString(s) == [type |-> "string", n |-> 0, s |-> s, b |-> FALSE]
JBoolean(b) == [type |-> "boolean", n |-> 0, s |-> "", b |-> b]

SchemaKeys ==
  {"id", "first_name", "last_name", "username", "language_code", "photo_url",
   "is_premium"}

UserKeys == SchemaKeys \cup {"allows_write_to_pm"}

\* An object, from its properties.
Obj(properties) ==
  [k \in UserKeys |->
     IF \E p \in properties : p[1] = k
     THEN (CHOOSE p \in properties : p[1] = k)[2]
     ELSE JAbsent]

USER_TEST == "{\"id\":42,\"first_name\":\"Test\",\"username\":\"qa_user\"}"
USER_TAMPERED == "{\"id\":42,\"first_name\":\"Tampered\"}"
USER_FULL == "{\"id\":7,\"first_name\":\"Ann\",\"last_name\":\"Lee\",\"language_code\":\"en\",\"photo_url\":\"https://t.me/i/userpic/320/ann.jpg\",\"is_premium\":true,\"allows_write_to_pm\":true}"
USER_NO_ID == "{\"first_name\":\"Test\"}"
USER_ID_STRING == "{\"id\":\"42\",\"first_name\":\"Test\"}"
USER_BAD_PHOTO == "{\"id\":42,\"first_name\":\"Test\",\"photo_url\":\"not a url\"}"
USER_NOT_JSON == "{id:42"

JsonTexts ==
  {USER_TEST, USER_TAMPERED, USER_FULL, USER_NO_ID, USER_ID_STRING,
   USER_BAD_PHOTO}

\* JSON.parse of the texts of the model; any other text is a SyntaxError.
IsJson(value) == Len(value) = 1 /\ value[1].s \in JsonTexts

JSONparse(value) ==
  CASE value[1].s = USER_TEST ->
         Obj({<<"id", JNumber(42)>>, <<"first_name", JString("Test")>>,
              <<"username", JString("qa_user")>>})
    [] value[1].s = USER_TAMPERED ->
         Obj({<<"id", JNumber(42)>>, <<"first_name", JString("Tampered")>>})
    [] value[1].s = USER_FULL ->
         Obj({<<"id", JNumber(7)>>, <<"first_name", JString("Ann")>>,
              <<"last_name", JString("Lee")>>,
              <<"language_code", JString("en")>>,
              <<"photo_url", JString("https://t.me/i/userpic/320/ann.jpg")>>,
              <<"is_premium", JBoolean(TRUE)>>,
              <<"allows_write_to_pm", JBoolean(TRUE)>>})
    [] value[1].s = USER_NO_ID ->
         Obj({<<"first_name", JString("Test")>>})
    [] value[1].s = USER_ID_STRING ->
         Obj({<<"id", JString("42")>>, <<"first_name", JString("Test")>>})
    [] value[1].s = USER_BAD_PHOTO ->
         Obj({<<"id", JNumber(42)>>, <<"first_name", JString("Test")>>,
              <<"photo_url", JString("not a url")>>})

IsUrl(s) == s \in {"https://t.me/i/userpic/320/ann.jpg"}

OptionalString(v) == v.type \in {"absent", "string"}

\* telegramUserSchema.safeParse(payload).success
SchemaAccepts(payload) ==
  /\ payload["id"].type = "number" /\ payload["id"].n > 0
  /\ payload["first_name"].type = "string" /\ payload["first_name"].s # ""
  /\ OptionalString(payload["last_name"])
  /\ OptionalString(payload["username"])
  /\ OptionalString(payload["language_code"])
  /\ \/ payload["photo_url"].type = "absent"
     \/ payload["photo_url"].type = "string" /\ IsUrl(payload["photo_url"].s)
  /\ payload["is_premium"].type \in {"absent", "boolean"}

\* parsedUser.data: z.object keeps the schema's keys and drops the others.
SchemaData(payload) == [k \in SchemaKeys |-> payload[k]]

NoUser == [k \in SchemaKeys |-> JAbsent]

Threw(message) ==
  [kind |-> "TelegramAuthError", message |-> message, status |-> 401,
   authDate |-> 0, hash |-> EmptyString, user |-> NoUser,
   queryId |-> NoValue, raw |-> <<>>]

\* Mutant: the payload expires one second early (>=).
Expired_Early(currentUnixTime, authDate, maxAgeSeconds) ==
  currentUnixTime - authDate >= maxAgeSeconds

\* Line 99.
Expired(currentUnixTime, authDate, maxAgeSeconds) ==
  currentUnixTime - authDate > maxAgeSeconds

\* Mutant: only the lengths of the two buffers are compared.
SignatureMismatch_LengthOnly(hash, expectedHash) ==
  Len(hash) # Len(expectedHash)

\* Lines 81-87: the lengths differ or timingSafeEqual says no.
SignatureMismatch(hash, expectedHash) ==
  Len(hash) # Len(expectedHash) \/ hash # expectedHash

\* Mutant: auth_date and the expiry are checked before the signature.
validateTelegramInitData_AuthDateFirst(initData, botToken, maxAgeSeconds, now) ==
  LET params == URLSearchParams(initData)
      hash == IF HasKey(params, "hash") THEN toLowerCase(ParamsGet(params, "hash"))
              ELSE NoValue
      dataCheckString == buildDataCheckString(params)
      expectedHash ==
        HexDigest(HmacHex(buildTelegramSecret(botToken), dataCheckString))
      authDate == Number(ParamsGet(params, "auth_date"))
      currentUnixTime == now \div 1000
      rawUser == ParamsGet(params, "user")
  IN IF IsNull(hash) \/ hash = EmptyString \/ ~IsHex64(hash)
     THEN Threw("Telegram hash is missing or malformed")
     ELSE IF authDate.kind # "num" \/ authDate.n <= 0
     THEN Threw("Telegram auth_date is missing or invalid")
     ELSE IF Expired(currentUnixTime, authDate.n, maxAgeSeconds)
     THEN Threw("Telegram initData has expired")
     ELSE IF SignatureMismatch(hash, expectedHash)
     THEN Threw("Telegram initData signature mismatch")
     ELSE IF IsNull(rawUser) \/ rawUser = EmptyString
     THEN Threw("Telegram user payload is missing")
     ELSE IF ~IsJson(rawUser)
     THEN Threw("Telegram user payload is invalid JSON")
     ELSE IF ~SchemaAccepts(JSONparse(rawUser))
     THEN Threw("Telegram user payload is invalid")
     ELSE [kind |-> "return", message |-> "", status |-> 200,
           authDate |-> authDate.n, hash |-> hash,
           user |-> SchemaData(JSONparse(rawUser)),
           queryId |-> ParamsGet(params, "query_id"), raw |-> initData]

\* validateTelegramInitData({ initData, botToken, maxAgeSeconds }), with
\* Date.now() = now (ms).
validateTelegramInitData(initData, botToken, maxAgeSeconds, now) ==
  LET params == URLSearchParams(initData)
      hash == IF HasKey(params, "hash") THEN toLowerCase(ParamsGet(params, "hash"))
              ELSE NoValue
      dataCheckString == buildDataCheckString(params)
      expectedHash ==
        HexDigest(HmacHex(buildTelegramSecret(botToken), dataCheckString))
      authDate == Number(ParamsGet(params, "auth_date"))
      currentUnixTime == now \div 1000
      rawUser == ParamsGet(params, "user")
  IN IF IsNull(hash) \/ hash = EmptyString \/ ~IsHex64(hash)
     THEN Threw("Telegram hash is missing or malformed")
     ELSE IF SignatureMismatch(hash, expectedHash)
     THEN Threw("Telegram initData signature mismatch")
     ELSE IF authDate.kind # "num" \/ authDate.n <= 0
     THEN Threw("Telegram auth_date is missing or invalid")
     ELSE IF Expired(currentUnixTime, authDate.n, maxAgeSeconds)
     THEN Threw("Telegram initData has expired")
     ELSE IF IsNull(rawUser) \/ rawUser = EmptyString
     THEN Threw("Telegram user payload is missing")
     ELSE IF ~IsJson(rawUser)
     THEN Threw("Telegram user payload is invalid JSON")
     ELSE IF ~SchemaAccepts(JSONparse(rawUser))
     THEN Threw("Telegram user payload is invalid")
     ELSE [kind |-> "return", message |-> "", status |-> 200,
           authDate |-> authDate.n, hash |-> hash,
           user |-> SchemaData(JSONparse(rawUser)),
           queryId |-> ParamsGet(params, "query_id"), raw |-> initData]

\* The signer of the repository's tests (api-contracts.test.ts:442-455).
signInitData(payload) ==
  LET dataCheckString == JoinLines(SortByKey(payload))
      secret == HmacHex("WebAppData", TELEGRAM_BOT_TOKEN)
      hash == HexDigest(HmacHex(secret, dataCheckString))
  IN toQueryString(payload \o <<<<"hash", hash>>>>)

\* The values the fields of a payload take.
AuthDateValues == {Str("1"), Str("2"), Str("0"), Str("abc")}

UserValues ==
  {Str(USER_TEST), Str(USER_FULL), Str(USER_TAMPERED), Str(USER_NO_ID),
   Str(USER_NOT_JSON), EmptyString}

QueryIdValues == {Str("AAHdF6IQAAAAAN0XohDhrOrc")}

ChatTypeValues ==
  {Str("private"),
   Str("private") \o Str("\n") \o Str("query_id") \o Str("=")
     \o Str("AAHdF6IQAAAAAN0XohDhrOrc")}

ValuesOf(key) ==
  CASE key = "auth_date" -> AuthDateValues
    [] key = "user" -> UserValues
    [] key = "query_id" -> QueryIdValues \cup {Str("abc")}
    [] key = "chat_type" -> ChatTypeValues \cup {Str("group")}

\* The orders in which a payload object lists its properties.
PropertyOrders ==
  {<<"auth_date", "chat_type", "query_id", "user">>,
   <<"user", "query_id", "auth_date", "chat_type">>}

RECURSIVE Entries(_, _, _)
Entries(order, present, valueOf) ==
  IF order = <<>> THEN <<>>
  ELSE (IF Head(order) \in present
        THEN <<<<Head(order), valueOf[Head(order)]>>>> ELSE <<>>)
       \o Entries(Tail(order), present, valueOf)

MaxAges == {1, 2}

NoVerdict ==
  [kind |-> "none", message |-> "", status |-> 0, authDate |-> 0,
   hash |-> EmptyString, user |-> NoUser, queryId |-> NoValue, raw |-> <<>>]

FieldKeys == Keys \ {"hash"}

FieldValues == UNION {ValuesOf(k) : k \in FieldKeys}

\* The payloads a client signs: any of the fields, in either order.
Payloads ==
  {Entries(order, present, valueOf) :
     order \in PropertyOrders, present \in SUBSET FieldKeys,
     valueOf \in [auth_date : AuthDateValues, user : UserValues,
                  query_id : QueryIdValues, chat_type : ChatTypeValues]}

\* A client signs a payload (signInitData) and holds the initData string.
Sign(payload) ==
  /\ vInitData = <<>>
  /\ vPayload' = payload
  /\ vInitData' = signInitData(payload)
  /\ UNCHANGED <<vClock, vMaxAge, vTampered, vResult, verifyOthers>>

\* The value of one field other than hash is changed, the hash kept
\* (api-contracts.test.ts:513-514).
Tamper(key, value) ==
  /\ vInitData # <<>>
  /\ vTampered = ""
  /\ key # "hash"
  /\ value \in ValuesOf(key)
  /\ LET tampered == URLSearchParams(vInitData)
     IN /\ HasKey(tampered, key)
        /\ Get(tampered, key) # value
        /\ vInitData' = toQueryString(Set(tampered, key, value))
  /\ vTampered' = key
  /\ vResult' = NoVerdict
  /\ UNCHANGED <<vClock, vMaxAge, vPayload, verifyOthers>>

\* Time passes.
VerifyTick ==
  /\ vClock + TickMs <= MaxVerifyTicks * TickMs
  /\ vClock' = vClock + TickMs
  /\ vResult' = NoVerdict
  /\ UNCHANGED <<vMaxAge, vPayload, vInitData, vTampered, verifyOthers>>

\* The initData string is presented to the verifier.
Validate ==
  /\ vInitData # <<>>
  /\ vResult' = validateTelegramInitData(vInitData, TELEGRAM_BOT_TOKEN,
                                         vMaxAge, vClock)
  /\ UNCHANGED <<vClock, vMaxAge, vPayload, vInitData, vTampered, verifyOthers>>

VerifyIdle ==
  /\ vClock = 0
  /\ vMaxAge = 1
  /\ vPayload = <<>>
  /\ vInitData = <<>>
  /\ vTampered = ""
  /\ vResult = NoVerdict

VerifyInit ==
  /\ vClock = 0
  /\ vMaxAge \in MaxAges
  /\ vPayload = <<>>
  /\ vInitData = <<>>
  /\ vTampered = ""
  /\ vResult = NoVerdict

VerifyNext ==
  \/ \E payload \in Payloads : Sign(payload)
  \/ \E key \in FieldKeys, value \in FieldValues : Tamper(key, value)
  \/ VerifyTick
  \/ Validate

---------------------------------------------------------------------------
(* Request context and error taxonomy (src/lib/http/route-error.ts) *)

\* An optional value: undefined, or the value.
Undefined == {}
Some(v) == {v}

\* The values routes throw.  name: error.name of an Error, "" for a thrown
\* value that is no Error; fieldErrors: error.flatten().fieldErrors of a
\* ZodError, as the fields in error; headers: the rate-limit headers an
\* HttpRouteError carries (NoHeaders when it has none).
TelegramAuthError(message, status) ==
  [kind |-> "TelegramAuthError", name |-> "TelegramAuthError",
   status |-> status, message |-> message, code |-> Undefined,
   details |-> Undefined, headers |-> NoHeaders, fieldErrors |-> {}]

ZodError(fieldErrors) ==
  [kind |-> "ZodError", name |-> "ZodError", status |-> 0,
   message |-> "zod issues", code |-> Undefined, details |-> Undefined,
   headers |-> NoHeaders, fieldErrors |-> fieldErrors]

HttpRouteError(message, status, code, details, headers) ==
  [kind |-> "HttpRouteError", name |-> "HttpRouteError", status |-> status,
   message |-> message, code |-> code, details |-> details,
   headers |-> headers, fieldErrors |-> {}]

PlainError(name, message) ==
  [kind |-> "Error", name |-> name, status |-> 0, message |-> message,
   code |-> Undefined, details |-> Undefined, headers |-> NoHeaders,
   fieldErrors |-> {}]

ThrownString(text) ==
  [kind |-> "string", name |-> "", status |-> 0, message |-> text,
   code |-> Undefined, details |-> Undefined, headers |-> NoHeaders,
   fieldErrors |-> {}]

NoContext ==
  [present |-> FALSE, route |-> "", requestId |-> "", telegramId |-> Undefined]

\* createRouteContext(request, route): the x-request-id header, trimmed, or
\* a fresh UUID when it is absent or blank.
Trim(text) ==
  CASE text = " client-req-1 " -> "client-req-1"
    [] text = "  " -> ""
    [] OTHER -> text

createRouteContext(xRequestId, route, randomUUID) ==
  LET incomingRequestId == IF xRequestId = Undefined THEN ""
                           ELSE Trim(CHOOSE h \in xRequestId : TRUE)
  IN [present |-> TRUE, route |-> route,
      requestId |-> IF incomingRequestId # "" THEN incomingRequestId
                    ELSE randomUUID,
      telegramId |-> Undefined]

attachTelegramId(context, telegramId) ==
  [context EXCEPT !.telegramId = Some(telegramId)]

NoResponseHeaders ==
  [xRequestId |-> Undefined, xRatelimitLimit |-> -1,
   xRatelimitRemaining |-> -1, xRatelimitReset |-> -1, retryAfter |-> -1]

\* headers.forEach((value, key) => response.headers.set(key, value))
SetHeaders(responseHeaders, headers) ==
  [responseHeaders EXCEPT
     !.xRatelimitLimit = IF headers.xRatelimitLimit # -1
                         THEN headers.xRatelimitLimit ELSE @,
     !.xRatelimitRemaining = IF headers.xRatelimitRemaining # -1
                             THEN headers.xRatelimitRemaining ELSE @,
     !.xRatelimitReset = IF headers.xRatelimitReset # -1
                         THEN headers.xRatelimitReset ELSE @,
     !.retryAfter = IF headers.retryAfter # -1 THEN headers.retryAfter ELSE @]

applyRouteHeaders(response, context, headers) ==
  [response EXCEPT
     !.headers = SetHeaders([@ EXCEPT !.xRequestId = Some(context.requestId)],
                            headers)]

\* NextResponse.json(body, { status })
JsonResponse(body, status) ==
  [status |-> status, body |-> body, headers |-> NoResponseHeaders]

ErrorBody(message, details, code, requestId) ==
  [error |-> message, details |-> details, code |-> code,
   requestId |-> requestId]

\* Mutant: a code is always put in the body.
BodyCode_Always(code) == IF code = Undefined THEN Some("internal_error") ELSE code

\* Lines 127-129: the body has a code only if one was set.
BodyCode(code) == IF code # Undefined /\ code # Some("") THEN code ELSE Undefined

\* Mutant: an HttpRouteError answers with its status but not its headers.
ExtraHeaders_Dropped(error) == NoHeaders

\* Line 106.
ExtraHeaders(error) ==
  IF error.kind = "HttpRouteError" THEN error.headers ELSE NoHeaders

\* handleRouteError(error, context): the response, and the record logged.
handleRouteError(error, context) ==
  LET status == CASE error.kind = "TelegramAuthError" -> error.status
                  [] error.kind = "ZodError" -> 400
                  [] error.kind = "HttpRouteError" -> error.status
                  [] OTHER -> 500
      message == CASE error.kind = "TelegramAuthError" -> error.message
                   [] error.kind = "ZodError" -> "Invalid request payload"
                   [] error.kind = "HttpRouteError" -> error.message
                   [] OTHER -> "Internal server error"
      details == CASE error.kind = "ZodError" -> Some(error.fieldErrors)
                   [] error.kind = "HttpRouteError" -> error.details
                   [] OTHER -> Undefined
      code == CASE error.kind = "TelegramAuthError" -> Some("telegram_auth")
                [] error.kind = "ZodError" -> Some("invalid_request")
                [] error.kind = "HttpRouteError" -> error.code
                [] OTHER -> Undefined
      extraHeaders == ExtraHeaders(error)
      isError == error.kind # "string"
      response ==
        JsonResponse(ErrorBody(message, details, BodyCode(code),
                               IF context.present THEN Some(context.requestId)
                               ELSE Undefined),
                     status)
  IN [response |->
        IF context.present THEN applyRouteHeaders(response, context, extraHeaders)
        ELSE [response EXCEPT !.headers = SetHeaders(@, extraHeaders)],
      log |->
        [level |-> "error",
         route |-> IF context.present THEN context.route ELSE "unknown",
         requestId |-> IF context.present THEN Some(context.requestId)
                       ELSE Undefined,
         telegramId |-> context.telegramId,
         status |-> status,
         code |-> IF code = Undefined THEN "internal_error"
                  ELSE CHOOSE c \in code : TRUE,
         errorType |-> IF isError THEN error.name ELSE "string",
         errorMessage |-> error.message]]

\* The rate-limit headers of a 429, as consumeRateLimit builds them.
TooManyRequestsHeaders ==
  [xRatelimitLimit |-> 2, xRatelimitRemaining |-> 0, xRatelimitReset |-> 1000,
   retryAfter |-> 1]

\* The values handed to handleRouteError.
ThrownValues ==
  {TelegramAuthError(message, status) :
     message \in {"Telegram hash is missing or malformed",
                  "Telegram initData signature mismatch",
                  "Telegram initData has expired",
                  "Telegram initData is required in Authorization header"},
     status \in {401, 403}}
  \cup {ZodError(fieldErrors) : fieldErrors \in {{"id"}, {"path"}, {"content", "metadata"}}}
  \cup {HttpRouteError(message, status, code, details, headers) :
          message \in {"Too many requests", "Memory item not found"},
          status \in {403, 404, 429},
          code \in {Undefined, Some("rate_limited"), Some("memory_not_found")},
          details \in {Undefined, Some({"reason"})},
          headers \in {NoHeaders, TooManyRequestsHeaders}}
  \cup {PlainError("Error", "Failed to delete memory item: timeout"),
        PlainError("TypeError", "fetch failed"),
        PlainError("AI_APICallError", "Service Unavailable"),
        ThrownString("boom")}

RequestIdHeaders == {Undefined, Some(" client-req-1 "), Some("  ")}

Contexts ==
  {NoContext}
  \cup {createRouteContext(h, "/api/test", "uuid-1") : h \in RequestIdHeaders}
  \cup {attachTelegramId(createRouteContext(h, "/api/ai/memory", "uuid-2"), "42") :
          h \in RequestIdHeaders}

NotHandled == [handled |-> FALSE]

\* A route's catch block: return handleRouteError(error, context).
HandleRouteError ==
  /\ ~eOut.handled
  /\ eOut' = [handled |-> TRUE,
              response |-> handleRouteError(eThrown, eContext).response,
              log |-> handleRouteError(eThrown, eContext).log]
  /\ UNCHANGED <<eThrown, eContext, errOthers>>

ErrIdle ==
  /\ eThrown = ThrownString("boom")
  /\ eContext = NoContext
  /\ eOut = NotHandled

ErrInit ==
  /\ eThrown \in ThrownValues
  /\ eContext \in Contexts
  /\ eOut = NotHandled

ErrNext == HandleRouteError

---------------------------------------------------------------------------
(* extractInitDataFromRequest (src/lib/telegram/validate-init-data.ts:39-58) *)

\* A header value is a sequence of tokens: words, spaces and tabs.
SPACE == " "
TAB == "\t"
IsWhitespace(token) == token \in {SPACE, TAB}

HeaderWords == {"tma", "BeArEr", "Basic", "user=abc&hash=xyz"}

HeaderTokens == HeaderWords \cup {SPACE, TAB}

MaxHeaderLen == 4

RECURSIVE TrimStart(_)
TrimStart(text) ==
  IF text # <<>> /\ IsWhitespace(Head(text)) THEN TrimStart(Tail(text))
  ELSE text

RECURSIVE TrimEnd(_)
TrimEnd(text) ==
  IF text # <<>> /\ IsWhitespace(text[Len(text)])
  THEN TrimEnd(SubSeq(text, 1, Len(text) - 1))
  ELSE text

\* String.prototype.trim
TrimText(text) == TrimEnd(TrimStart(text))

\* String.prototype.split(" "): the pieces between the spaces.
RECURSIVE SplitOnSpace(_, _)
SplitOnSpace(text, piece) ==
  IF text = <<>> THEN <<piece>>
  ELSE IF Head(text) = SPACE THEN <<piece>> \o SplitOnSpace(Tail(text), <<>>)
  ELSE SplitOnSpace(Tail(text), Append(piece, Head(text)))

\* Array.prototype.join(" ")
RECURSIVE JoinWithSpace(_)
JoinWithSpace(pieces) ==
  IF pieces = <<>> THEN <<>>
  ELSE IF Len(pieces) = 1 THEN pieces[1]
  ELSE pieces[1] \o <<SPACE>> \o JoinWithSpace(Tail(pieces))

LowerCaseScheme(word) ==
  CASE word = "BeArEr" -> "bearer"
    [] OTHER -> word

\* Mutant: the scheme is compared as written.
IsInitDataScheme_CaseSensitive(piece) ==
  Len(piece) = 1 /\ piece[1] \in {"Bearer", "tma"}

\* /^bearer$/i.test(scheme) || /^tma$/i.test(scheme)
IsInitDataScheme(piece) ==
  Len(piece) = 1 /\ LowerCaseScheme(piece[1]) \in {"bearer", "tma"}

\* Headers.get(name): null, or the value without its leading and trailing
\* whitespace.
HeaderGet(header) ==
  IF header = Undefined THEN Undefined
  ELSE Some(TrimText(CHOOSE value \in header : TRUE))

Extracted(payload) ==
  [kind |-> "return", initData |-> payload, status |-> 200, message |-> ""]

ExtractThrew(message) ==
  [kind |-> "TelegramAuthError", initData |-> <<>>, status |-> 401,
   message |-> message]

extractInitDataFromRequest(headers) ==
  LET authorization == HeaderGet(headers.authorization)
      authText == IF authorization = Undefined THEN <<>>
                  ELSE CHOOSE value \in authorization : TRUE
      pieces == SplitOnSpace(TrimText(authText), <<>>)
      scheme == Head(pieces)
      payload == TrimText(JoinWithSpace(Tail(pieces)))
      fallback == HeaderGet(headers.xTelegramInitData)
      fallbackHeader == IF fallback = Undefined THEN <<>>
                        ELSE TrimText(CHOOSE value \in fallback : TRUE)
  IN IF authText # <<>> /\ IsInitDataScheme(scheme) /\ payload # <<>>
     THEN Extracted(payload)
     ELSE IF fallbackHeader # <<>> THEN Extracted(fallbackHeader)
     ELSE ExtractThrew("Telegram initData is required in Authorization header")

RECURSIVE TextsUpTo(_)
TextsUpTo(n) ==
  IF n = 0 THEN {<<>>}
  ELSE LET shorter == TextsUpTo(n - 1)
       IN shorter \cup {Append(text, token) : text \in shorter, token \in HeaderTokens}

AuthorizationHeaders ==
  {Undefined} \cup {Some(text) : text \in TextsUpTo(MaxHeaderLen)}

FallbackHeaders ==
  {Undefined, Some(<<>>), Some(<<SPACE, TAB>>),
   Some(<<SPACE, "user=abc&hash=xyz", SPACE>>),
   Some(<<"tma", SPACE, "user=abc&hash=xyz">>)}

NotExtracted == [kind |-> "none", initData |-> <<>>, status |-> 0, message |-> ""]

\* A request arrives and its initData is extracted.
Extract ==
  /\ xResult.kind = "none"
  /\ xResult' = extractInitDataFromRequest(xHeaders)
  /\ UNCHANGED <<xHeaders, extractOthers>>

ExtractIdle ==
  /\ xHeaders = [authorization |-> Undefined, xTelegramInitData |-> Undefined]
  /\ xResult = NotExtracted

ExtractInit ==
  /\ xHeaders \in [authorization : AuthorizationHeaders,
                   xTelegramInitData : FallbackHeaders]
  /\ xResult = NotExtracted

ExtractNext == Extract

---------------------------------------------------------------------------
(* Route handlers (src/app/api/**/route.ts, src/unnamed/part_001) *)

MEMORY_ROUTE == "/api/ai/memory"
COMPLETE_ROUTE == "/api/ai/complete"
VERIFY_UPLOAD_ROUTE == "/api/storage/verify-upload"

\* The handlers behind the rate limiter.
Handlers ==
  {"validate", "embed", "complete", "memoryGet", "memoryDelete", "verifyUpload"}

\* ROUTE_PATH of each handler's module.
RoutePath(handler) ==
  CASE handler = "validate" -> VALIDATE_ROUTE
    [] handler = "embed" -> EMBED_ROUTE
    [] handler = "complete" -> COMPLETE_ROUTE
    [] handler \in {"memoryGet", "memoryDelete"} -> MEMORY_ROUTE
    [] handler = "verifyUpload" -> VERIFY_UPLOAD_ROUTE

\* The server environments of the model: two settings of the per-route
\* limits, so that the limit of one route is not the limit of another.
ApiEnvs ==
  {[API_RATE_LIMIT_WINDOW_SECONDS |-> 2,
    API_RATE_LIMIT_VALIDATE_MAX |-> 1,
    API_RATE_LIMIT_AI_COMPLETE_MAX |-> 2,
    API_RATE_LIMIT_AI_EMBED_MAX |-> 1,
    API_RATE_LIMIT_STORAGE_UPLOAD_URL_MAX |-> 2,
    TELEGRAM_INIT_DATA_MAX_AGE_SECONDS |-> 2],
   [API_RATE_LIMIT_WINDOW_SECONDS |-> 1,
    API_RATE_LIMIT_VALIDATE_MAX |-> 2,
    API_RATE_LIMIT_AI_COMPLETE_MAX |-> 1,
    API_RATE_LIMIT_AI_EMBED_MAX |-> 2,
    API_RATE_LIMIT_STORAGE_UPLOAD_URL_MAX |-> 1,
    TELEGRAM_INIT_DATA_MAX_AGE_SECONDS |-> 1]}

\* The `limit` each handler passes to consumeRateLimit.
HandlerLimit(e, handler) ==
  CASE handler = "validate" -> e.API_RATE_LIMIT_VALIDATE_MAX
    [] handler = "complete" -> e.API_RATE_LIMIT_AI_COMPLETE_MAX
    [] handler \in {"embed", "memoryGet", "memoryDelete"} ->
         e.API_RATE_LIMIT_AI_EMBED_MAX
    [] handler = "verifyUpload" -> e.API_RATE_LIMIT_STORAGE_UPLOAD_URL_MAX

\* What a client sends as credentials: nothing, or `tma <initData>` with the
\* initData it holds.  Two clients hold an initData signed for them.
INIT_DATA_42 == "initData-42"
INIT_DATA_7 == "initData-7"

Credentials == {"none", INIT_DATA_42, INIT_DATA_7}

AuthorizationOf(credentials) ==
  IF credentials = "none" THEN Undefined
  ELSE Some(<<"tma", SPACE, credentials>>)

\* The initData strings the clients hold, signed as the test helper signs.
SIGNED_INIT_DATA_42 ==
  signInitData(<<<<"auth_date", Str("1")>>, <<"user", Str(USER_TEST)>>>>)

SIGNED_INIT_DATA_7 ==
  signInitData(<<<<"auth_date", Str("1")>>, <<"user", Str(USER_FULL)>>>>)

\* The initData string a header payload stands for.
InitDataString(payload) ==
  CASE payload = <<INIT_DATA_42>> -> SIGNED_INIT_DATA_42
    [] payload = <<INIT_DATA_7>> -> SIGNED_INIT_DATA_7
    [] OTHER -> <<>>

\* String(validated.user.id)
NumberToString(n) ==
  CASE n = 42 -> "42"
    [] n = 7 -> "7"

\* normalizeClientIp and buildAuthorizationFingerprint (rate-limit.ts:35-52):
\* the first forwarded address, and a digest of the Authorization header.
normalizeClientIp(rawIp) ==
  IF rawIp = Undefined THEN "unknown"
  ELSE CHOOSE ip \in rawIp : TRUE

buildAuthorizationFingerprint(authorization) ==
  IF HeaderGet(authorization) = Undefined
       \/ HeaderGet(authorization) = Some(<<>>)
  THEN <<"no-auth">>
  ELSE <<"sha256">> \o (CHOOSE value \in HeaderGet(authorization) : TRUE)

getClientRateLimitKey(headers) ==
  <<normalizeClientIp(headers.xForwardedFor),
    buildAuthorizationFingerprint(headers.authorization)>>

\* The synchronous part of authenticateTelegramRequest (part_001:7-15):
\* the initData is extracted and validated, and the Telegram id is
\* String(user.id).
AuthResult(kind, message, telegramId) ==
  [kind |-> kind, message |-> message, telegramId |-> telegramId]

verifyRequest(headers, e, now) ==
  LET extracted == extractInitDataFromRequest(headers)
      validated ==
        validateTelegramInitData(InitDataString(extracted.initData),
                                 TELEGRAM_BOT_TOKEN,
                                 e.TELEGRAM_INIT_DATA_MAX_AGE_SECONDS, now)
  IN IF extracted.kind # "return"
     THEN AuthResult("TelegramAuthError", extracted.message, "")
     ELSE IF validated.kind # "return"
     THEN AuthResult("TelegramAuthError", validated.message, "")
     ELSE AuthResult("return", "", NumberToString(validated.user["id"].n))

\* Request bodies and query strings.
DocIds == {"d1", "d2"}
NoOwner == ""

\* z.string().uuid(): the ids of the model are UUIDs, "not-a-uuid" is not.
IsUuid(id) == id \in DocIds

\* A storage path is a sequence of segments and "/" separators.
SLASH == "/"

PathValues ==
  {<<"42", SLASH, "a.png">>,
   <<"42", SLASH, "docs", SLASH, "a.png">>,
   <<"42", SLASH, "..", SLASH, "7", SLASH, "a.png">>,
   <<"42", SLASH>>,
   <<"7", SLASH, "a.png">>,
   <<"427", SLASH, "a.png">>,
   <<"a.png">>,
   <<"42">>}

\* String.prototype.length of a segment.
SegmentLength(segment) ==
  CASE segment \in {SLASH, "7"} -> 1
    [] segment \in {"42", ".."} -> 2
    [] segment = "427" -> 3
    [] segment = "docs" -> 4
    [] segment = "a.png" -> 5

RECURSIVE PathLength(_)
PathLength(path) ==
  IF path = <<>> THEN 0
  ELSE SegmentLength(Head(path)) + PathLength(Tail(path))

\* path.startsWith(`${telegramId}/`): a Telegram id holds no "/".
StartsWithFolder(path, telegramId) ==
  /\ Len(path) >= 2
  /\ path[1] = telegramId
  /\ path[2] = SLASH

\* path.lastIndexOf("/"), as a position in the sequence (0: none).
LastSlash(path) ==
  IF \E i \in 1..Len(path) : path[i] = SLASH
  THEN CHOOSE i \in 1..Len(path) :
         /\ path[i] = SLASH
         /\ \A j \in (i + 1)..Len(path) : path[j] # SLASH
  ELSE 0

\* Lines 46-48 of verify-upload/route.ts: slashIndex > 0 is false for a
\* path with no "/" and for one whose only "/" is its first character.
FolderPath(path) ==
  IF LastSlash(path) > 1 THEN SubSeq(path, 1, LastSlash(path) - 1) ELSE <<>>

FileName(path) ==
  IF LastSlash(path) > 0 THEN SubSeq(path, LastSlash(path) + 1, Len(path))
  ELSE path

NoBody == [id |-> "", path |-> <<>>, content |-> "", limit |-> ""]

Bodies(handler) ==
  CASE handler = "memoryDelete" ->
         {[NoBody EXCEPT !.id = id] : id \in DocIds \cup {"not-a-uuid"}}
    [] handler = "verifyUpload" ->
         {[NoBody EXCEPT !.path = path] : path \in PathValues}
    [] handler \in {"embed", "complete"} ->
         {[NoBody EXCEPT !.content = content] : content \in {"note", ""}}
    [] handler = "memoryGet" ->
         {[NoBody EXCEPT !.limit = limit] : limit \in {"", "0"}}
    [] handler = "validate" -> {NoBody}

AllBodies == UNION {Bodies(handler) : handler \in Handlers}

\* The schema of each handler: the fields it rejects (error.flatten().fieldErrors).
FieldErrors(handler, body) ==
  CASE handler = "memoryDelete" -> IF IsUuid(body.id) THEN {} ELSE {"id"}
    [] handler = "verifyUpload" ->
         IF PathLength(body.path) >= 3 /\ PathLength(body.path) <= 240
         THEN {} ELSE {"path"}
    [] handler = "embed" -> IF body.content # "" THEN {} ELSE {"content"}
    [] handler = "complete" -> IF body.content # "" THEN {} ELSE {"prompt"}
    [] handler = "memoryGet" -> IF body.limit # "0" THEN {} ELSE {"limit"}
    [] handler = "validate" -> {}

\* What withTimeoutAndRetry throws when the embedding is not produced: the
\* provider's last error, or the timeout error.
EmbeddingFailures ==
  {PlainError("APICallError", "Service unavailable"),
   PlainError("Error", "Embedding generation timed out after 20000ms")}

\* What the platforms answer while a request is served.
Outcomes(handler) ==
  {"ok", "sessionFailed", "platformFailed"}
  \cup (IF handler \in {"embed", "complete"}
        THEN {"embeddingFailed", "embeddingEmpty"} ELSE {})
  \cup (IF handler = "verifyUpload" THEN {"okNoFile"} ELSE {})

PlatformError(handler) ==
  CASE handler = "validate" -> PlainError("Error", "Failed to upsert profile")
    [] handler = "embed" -> PlainError("Error", "Failed to insert embedding")
    [] handler = "complete" -> PlainError("Error", "Failed to run similarity search")
    [] handler = "memoryGet" -> PlainError("Error", "Failed to load memory")
    [] handler = "memoryDelete" -> PlainError("Error", "Failed to delete memory item")
    [] handler = "verifyUpload" -> PlainError("Error", "Failed to verify uploaded file")

\* Row-level security of public.documents (part_005:42-65): a statement
\* sees and deletes only the rows of current_telegram_id(), which is the
\* telegram_id the account was created with.
VisibleRows(documents, telegramId) ==
  {id \in DocIds : documents[id] = telegramId}

\* Mutant: the delete is not confined to the caller's rows.
DeletedRows_AnyOwner(documents, telegramId, id) ==
  {row \in DocIds : row = id /\ documents[row] # NoOwner}

\* .delete().eq("id", id).select("id"): the rows deleted.
DeletedRows(documents, telegramId, id) ==
  {row \in VisibleRows(documents, telegramId) : row = id}

\* Mutant: any path that names a folder passes.
InsideUserFolder_AnyFolder(path, telegramId) ==
  Len(path) >= 2 /\ path[2] = SLASH

\* verify-upload/route.ts:39
InsideUserFolder(path, telegramId) == StartsWithFolder(path, telegramId)

\* Mutant: an embedding failure leaves the handler and the insert still runs.
InsertsDocument_Always(outcome) == outcome # "sessionFailed"

\* embed/route.ts:175-208: the insert runs after the embedding was produced
\* and turned into a vector.
InsertsDocument(outcome) == outcome \in {"ok", "platformFailed"}

\* Mutant: the success response carries no rate-limit headers.
SuccessHeaders_None(rateLimit) == NoHeaders

\* getRateLimitHeaders(rateLimit), as the HeadersInit of the response.
SuccessHeaders(rateLimit) ==
  [xRatelimitLimit |-> getRateLimitHeaders(rateLimit).xRatelimitLimit,
   xRatelimitRemaining |-> getRateLimitHeaders(rateLimit).xRatelimitRemaining,
   xRatelimitReset |-> getRateLimitHeaders(rateLimit).xRatelimitReset,
   retryAfter |-> -1]

\* What a handler does once the caller's session is there: what it throws
\* (Undefined: nothing) or the body it answers with, the documents it
\* leaves, and the platform calls it made.
Served(thrown, body, documents, removed, inserted, listCalls) ==
  [thrown |-> thrown, body |-> body, documents |-> documents,
   removed |-> removed, inserted |-> inserted, listCalls |-> listCalls]

Throws(error, documents, inserted, listCalls) ==
  Served(Some(error), [none |-> TRUE], documents, {}, inserted, listCalls)

NoFailure == PlainError("", "")

FailuresOf(outcome) ==
  IF outcome = "embeddingFailed" THEN EmbeddingFailures ELSE {NoFailure}

FreeIds(documents) == {id \in DocIds : documents[id] = NoOwner}

\* gen_random_uuid(): an id no row has.
NewId(documents) == CHOOSE id \in FreeIds(documents) : TRUE

ServeValidate(telegramId, outcome, documents) ==
  IF outcome = "platformFailed"
  THEN Throws(PlatformError("validate"), documents, {}, {})
  ELSE Served(Undefined, [telegramId |-> telegramId], documents, {}, {}, {})

ServeEmbed(telegramId, outcome, failure, documents) ==
  LET inserted == IF InsertsDocument(outcome) /\ outcome # "platformFailed"
                  THEN {[id |-> NewId(documents), owner |-> telegramId]}
                  ELSE {}
      after == [id \in DocIds |->
                  IF \E row \in inserted : row.id = id THEN telegramId
                  ELSE documents[id]]
  IN CASE outcome = "embeddingFailed" -> Throws(failure, after, inserted, {})
       [] outcome = "embeddingEmpty" ->
            Throws(PlainError("Error", "Embedding vector is empty"),
                   after, inserted, {})
       [] outcome = "platformFailed" ->
            Throws(PlatformError("embed"), after, inserted, {})
       [] OTHER ->
            Served(Undefined, [documentId |-> NewId(documents)], after, {},
                   inserted, {})

ServeComplete(telegramId, outcome, failure, documents) ==
  CASE outcome = "embeddingFailed" -> Throws(failure, documents, {}, {})
    [] outcome = "embeddingEmpty" ->
         Throws(PlainError("Error", "Embedding vector is empty"),
                documents, {}, {})
    [] outcome = "platformFailed" ->
         Throws(PlatformError("complete"), documents, {}, {})
    [] OTHER ->
         Served(Undefined, [stream |-> "application/x-ndjson"], documents,
                {}, {}, {})

ServeMemoryGet(telegramId, outcome, documents) ==
  IF outcome = "platformFailed"
  THEN Throws(PlatformError("memoryGet"), documents, {}, {})
  ELSE Served(Undefined, [items |-> VisibleRows(documents, telegramId)],
              documents, {}, {}, {})

ServeMemoryDelete(telegramId, body, outcome, documents) ==
  LET deleted == DeletedRows(documents, telegramId, body.id)
      removed == {[id |-> id, owner |-> documents[id]] : id \in deleted}
      after == [id \in DocIds |->
                  IF id \in deleted THEN NoOwner ELSE documents[id]]
  IN IF outcome = "platformFailed"
     THEN Throws(PlatformError("memoryDelete"), documents, {}, {})
     ELSE IF deleted = {}
     THEN Throws(HttpRouteError("Memory item not found", 404,
                                Some("memory_not_found"), Undefined, NoHeaders),
                 documents, {}, {})
     ELSE Served(Undefined, [deleted |-> TRUE, id |-> body.id], after,
                 removed, {}, {})

ServeVerifyUpload(telegramId, body, outcome) ==
  LET listCalls == {[folderPath |-> FolderPath(body.path),
                     search |-> FileName(body.path)]}
  IN IF ~InsideUserFolder(body.path, telegramId)
     THEN [thrown |-> Some(HttpRouteError("Path is outside user folder", 403,
                                         Some("forbidden_path"), Undefined,
                                         NoHeaders)),
           body |-> [none |-> TRUE], listCalls |-> {}]
     ELSE IF outcome = "platformFailed"
     THEN [thrown |-> Some(PlatformError("verifyUpload")),
           body |-> [none |-> TRUE], listCalls |-> listCalls]
     ELSE [thrown |-> Undefined,
           body |-> [path |-> body.path, exists |-> outcome = "ok"],
           listCalls |-> listCalls]

\* The try block of a handler from the line after authenticateTelegramRequest.
Serve(handler, telegramId, body, outcome, failure, documents) ==
  IF FieldErrors(handler, body) # {}
  THEN Throws(ZodError(FieldErrors(handler, body)), documents, {}, {})
  ELSE CASE handler = "validate" -> ServeValidate(telegramId, outcome, documents)
         [] handler = "embed" ->
              ServeEmbed(telegramId, outcome, failure, documents)
         [] handler = "complete" ->
              ServeComplete(telegramId, outcome, failure, documents)
         [] handler = "memoryGet" ->
              ServeMemoryGet(telegramId, outcome, documents)
         [] handler = "memoryDelete" ->
              ServeMemoryDelete(telegramId, body, outcome, documents)
         [] handler = "verifyUpload" ->
              LET served == ServeVerifyUpload(telegramId, body, outcome)
              IN Served(served.thrown, served.body, documents, {}, {},
                        served.listCalls)

\* Mutant: a handler goes on without the caller's session.
SessionFailed_Ignored(outcome) == FALSE

\* part_001:16-19: createTelegramSupabaseClient threw, so
\* authenticateTelegramRequest threw and the handler is in its catch block.
SessionFailed(outcome) == outcome = "sessionFailed"

\* The data-platform, storage and LLM operations a handler invokes from the
\* line after authenticateTelegramRequest, in order.  The body is parsed
\* first; each operation is awaited and its failure thrown before the next.
Operations(handler, telegramId, body, outcome) ==
  IF FieldErrors(handler, body) # {} THEN <<>>
  ELSE CASE handler = "validate" -> <<"telegram_profiles.upsert">>
         [] handler = "embed" ->
              <<"embed">> \o (IF InsertsDocument(outcome)
                              THEN <<"insert_document">> ELSE <<>>)
         [] handler = "complete" ->
              <<"embed">>
              \o (IF outcome \in {"embeddingFailed", "embeddingEmpty"} THEN <<>>
                  ELSE <<"match_documents">>)
              \o (IF outcome \in {"embeddingFailed", "embeddingEmpty",
                                  "platformFailed"}
                  THEN <<>> ELSE <<"streamText">>)
         [] handler = "memoryGet" -> <<"documents.select">>
         [] handler = "memoryDelete" -> <<"documents.delete">>
         [] handler = "verifyUpload" ->
              IF InsideUserFolder(body.path, telegramId)
              THEN <<"storage.list">> ELSE <<>>

\* The requests of a run, numbered in the order they arrive, and the times
\* (Date.now(), in ms) they are served at.
Slots == {1, 2}
RouteClocks == {1000, 2000}

RequestIdOf(slot) == IF slot = 1 THEN "req-1" ELSE "req-2"

RequestHeaders(credentials) ==
  [authorization |-> AuthorizationOf(credentials),
   xTelegramInitData |-> Undefined,
   xForwardedFor |-> Some("10.0.0.1")]

IdleRequest ==
  [pc |-> "idle", handler |-> "", credentials |-> "", telegramId |-> "",
   body |-> NoBody, context |-> NoContext, rateLimit |-> NoResult]

\* The response a request got, with what the model remembers of the
\* request it answers.
NoAnswer == [present |-> FALSE]

Answer(slot, request, passedRateLimit, response, served) ==
  [present |-> TRUE, slot |-> slot, handler |-> request.handler,
   credentials |-> request.credentials, telegramId |-> request.telegramId,
   body |-> request.body, passedRateLimit |-> passedRateLimit,
   limit |-> HandlerLimit(aEnv, request.handler),
   response |-> response, removed |-> served.removed,
   inserted |-> served.inserted, listCalls |-> served.listCalls,
   documentsBefore |-> aDocuments,
   outcome |-> served.outcome, operations |-> served.operations,
   sessionAwaited |-> served.sessionAwaited]

NothingServed ==
  [removed |-> {}, inserted |-> {}, listCalls |-> {}, outcome |-> "",
   operations |-> <<>>, sessionAwaited |-> FALSE]

\* Mutant: the credentials are verified before the limiter is asked, and a
\* request that fails the verification is not counted.
StoreAfterHead_AuthFirst(store, consumed, auth) ==
  IF auth.kind # "return" THEN store ELSE consumed.store

\* The store when the handler reaches its first await or its catch block:
\* consumeRateLimit has run (validate/route.ts:21-26), whatever
\* authenticateTelegramRequest (line 28) does after it.
StoreAfterHead(store, consumed, auth) == consumed.store

\* The handler up to the first await inside authenticateTelegramRequest:
\* createRouteContext, consumeRateLimit, extractInitDataFromRequest and
\* validateTelegramInitData.  It answers (429, 500, 401) or waits for the
\* caller's session.  The body is read after that await.
RouteBegin(slot, handler, credentials) ==
  /\ aRequests[slot].pc = "idle"
  /\ \A earlier \in Slots : earlier < slot => aRequests[earlier].pc # "idle"
  /\ LET headers == RequestHeaders(credentials)
         context == createRouteContext(Undefined, RoutePath(handler),
                                       RequestIdOf(slot))
         consumed ==
           consumeRateLimit(aStore,
             [route |-> RoutePath(handler),
              key |-> getClientRateLimitKey(headers),
              limit |-> HandlerLimit(aEnv, handler),
              windowMs |-> aEnv.API_RATE_LIMIT_WINDOW_SECONDS * 1000,
              now |-> aClock])
         auth == verifyRequest(headers, aEnv, aClock)
         request == [IdleRequest EXCEPT !.handler = handler,
                                        !.credentials = credentials,
                                        !.context = context]
         thrown ==
           CASE consumed.kind = "HttpRouteError" ->
                  Some(HttpRouteError("Too many requests", consumed.status,
                                      Some(consumed.code), Undefined,
                                      consumed.headers))
             [] consumed.kind = "Error" ->
                  Some(PlainError("Error", "Rate limit must be >= 1"))
             [] auth.kind # "return" ->
                  Some(TelegramAuthError(auth.message, 401))
             [] OTHER -> Undefined
     IN /\ aStore' = StoreAfterHead(aStore, consumed, auth)
        /\ IF thrown # Undefined
           THEN /\ aRequests' = [aRequests EXCEPT ![slot] =
                                   [IdleRequest EXCEPT !.pc = "answered"]]
                /\ aLast' = Answer(slot, request, consumed.kind = "return",
                                   handleRouteError(CHOOSE e \in thrown : TRUE,
                                                    context).response,
                                   NothingServed)
           ELSE /\ aRequests' = [aRequests EXCEPT ![slot] =
                                   [request EXCEPT
                                      !.pc = "awaitSession",
                                      !.telegramId = auth.telegramId,
                                      !.rateLimit = consumed.result]]
                /\ aLast' = NoAnswer
  /\ UNCHANGED <<aEnv, aClock, aDocuments, routeOthers>>

\* The rest of the handler: the session of createTelegramSupabaseClient,
\* the body, the platform calls, and the response.
RouteFinish(slot, body, outcome, failure) ==
  /\ aRequests[slot].pc = "awaitSession"
  /\ body \in Bodies(aRequests[slot].handler)
  /\ outcome \in Outcomes(aRequests[slot].handler)
  /\ failure \in FailuresOf(outcome)
  /\ (aRequests[slot].handler = "embed" => FreeIds(aDocuments) # {})
  /\ LET request == [aRequests[slot] EXCEPT !.body = body]
         served ==
           IF SessionFailed(outcome)
           THEN Throws(PlainError("Error",
                                  "Failed to sign in Supabase user after creation"),
                       aDocuments, {}, {})
           ELSE Serve(request.handler, request.telegramId, request.body,
                      outcome, failure, aDocuments)
         context == IF SessionFailed(outcome) THEN request.context
                    ELSE attachTelegramId(request.context, request.telegramId)
         response ==
           IF served.thrown # Undefined
           THEN handleRouteError(CHOOSE e \in served.thrown : TRUE,
                                 context).response
           ELSE applyRouteHeaders(JsonResponse(served.body, 200), context,
                                  SuccessHeaders(request.rateLimit))
     IN /\ aDocuments' = served.documents
        /\ aRequests' = [aRequests EXCEPT ![slot] =
                                [IdleRequest EXCEPT !.pc = "answered"]]
        /\ aLast' = Answer(slot, request, TRUE, response,
                           [removed |-> served.removed,
                            inserted |-> served.inserted,
                            listCalls |-> served.listCalls,
                            outcome |-> outcome,
                            operations |->
                              IF SessionFailed(outcome) THEN <<>>
                              ELSE Operations(request.handler,
                                              request.telegramId,
                                              request.body, outcome),
                            sessionAwaited |-> TRUE])
  /\ UNCHANGED <<aEnv, aClock, aStore, routeOthers>>

\* A second passes.
RouteTick ==
  /\ aClock + 1000 \in RouteClocks
  /\ aClock' = aClock + 1000
  /\ aLast' = NoAnswer
  /\ UNCHANGED <<aEnv, aStore, aDocuments, aRequests, routeOthers>>

RouteIdle ==
  /\ aEnv = CHOOSE e \in ApiEnvs : TRUE
  /\ aClock = 0
  /\ aStore = <<>>
  /\ aDocuments = [id \in DocIds |-> NoOwner]
  /\ aRequests = [slot \in Slots |-> IdleRequest]
  /\ aLast = NoAnswer

\* The documents the table holds when the requests of the model begin: one
\* row, embedded earlier by user 7.
InitialDocuments == [id \in DocIds |-> IF id = "d1" THEN "7" ELSE NoOwner]

RouteInit ==
  /\ aEnv \in ApiEnvs
  /\ aClock = 1000
  /\ aStore = <<>>
  /\ aDocuments = InitialDocuments
  /\ aRequests = [slot \in Slots |-> IdleRequest]
  /\ aLast = NoAnswer

RouteNext ==
  \/ \E slot \in Slots, handler \in Handlers, credentials \in Credentials :
       RouteBegin(slot, handler, credentials)
  \/ \E slot \in Slots, outcome \in {"ok", "okNoFile", "sessionFailed",
                                      "platformFailed", "embeddingFailed",
                                      "embeddingEmpty"} :
       \E body \in AllBodies, failure \in EmbeddingFailures \cup {NoFailure} :
         RouteFinish(slot, body, outcome, failure)
  \/ RouteTick

---------------------------------------------------------------------------
(* initData strings with repeated names (src/lib/telegram/validate-init-data.ts) *)

\* A hash of the right form that signs nothing, and one of the wrong form.
WRONG_HASH == HexDigest(HmacHex(buildTelegramSecret("987654:OTHER_TOKEN"), <<>>))
MALFORMED_HASH == Str("abc")

\* Payloads as a signer that signs every pair it is given would hold them:
\* without a repeated name, and with auth_date or user given twice.
RepeatPayloads ==
  {<<<<"auth_date", Str("1")>>, <<"user", Str(USER_TEST)>>>>,
   <<<<"user", Str(USER_FULL)>>, <<"auth_date", Str("2")>>,
     <<"query_id", Str("AAHdF6IQAAAAAN0XohDhrOrc")>>>>,
   <<<<"auth_date", Str("1")>>, <<"user", Str(USER_TEST)>>,
     <<"auth_date", Str("2")>>>>,
   <<<<"user", Str(USER_TEST)>>, <<"auth_date", Str("1")>>,
     <<"user", Str(USER_FULL)>>>>,
   <<<<"auth_date", Str("1")>>, <<"user", Str(USER_TEST)>>,
     <<"auth_date", Str("abc")>>>>}

RepeatKeys == {"hash", "auth_date", "user", "query_id"}

RepeatValues(key, initData) ==
  CASE key = "hash" ->
         {Get(URLSearchParams(initData), "hash"), WRONG_HASH, MALFORMED_HASH}
    [] key = "auth_date" -> {Str("1"), Str("2")}
    [] key = "user" -> {Str(USER_TEST), Str(USER_FULL)}
    [] key = "query_id" -> {Str("AAHdF6IQAAAAAN0XohDhrOrc"), Str("abc")}

NoRepeat == [key |-> "", value |-> <<>>, position |-> ""]

\* A pair is added to the initData string under a name the string already
\* has, before the first pair or after the last.
Repeat(key, value, position) ==
  /\ vInitData # <<>>
  /\ vRepeated = NoRepeat
  /\ HasKey(URLSearchParams(vInitData), key)
  /\ value \in RepeatValues(key, vInitData)
  /\ vInitData' = IF position = "first"
                  THEN toQueryString(<<<<key, value>>>>) \o vInitData
                  ELSE vInitData \o toQueryString(<<<<key, value>>>>)
  /\ vRepeated' = [key |-> key, value |-> value, position |-> position]
  /\ vResult' = NoVerdict
  /\ UNCHANGED <<vClock, vMaxAge, vPayload, vTampered, repeatOthers>>

RepeatIdle == vRepeated = NoRepeat

RepeatInit == VerifyInit /\ vRepeated = NoRepeat

RepeatNext ==
  \/ \E payload \in RepeatPayloads : Sign(payload)
  \/ \E key \in RepeatKeys, position \in {"first", "last"} :
       \E value \in RepeatValues(key, vInitData) : Repeat(key, value, position)
  \/ Validate

---------------------------------------------------------------------------
(* The response stream of /api/ai/complete (src/app/api/ai/complete/route.ts) *)

MaxDeltas == 3

\* The deltas of the provider's textStream.
Deltas == {"a", "b"}

\* What the textStream throws: an Error, or a value that is none.
StreamErrors ==
  {PlainError("APICallError", "Service unavailable"),
   PlainError("AbortError", "This operation was aborted"),
   ThrownString("boom")}

\* The default text of line 234 (a Russian sentence), transliterated.
DEFAULT_STREAM_ERROR == "Oshibka pri potokovoi generatsii otveta"

MetaFrame == [type |-> "meta", delta |-> "", text |-> <<>>, error |-> ""]
TextDeltaFrame(delta) ==
  [type |-> "text-delta", delta |-> delta, text |-> <<>>, error |-> ""]
DoneFrame(text) == [type |-> "done", delta |-> "", text |-> text, error |-> ""]
ErrorFrame(error) == [type |-> "error", delta |-> "", text |-> <<>>, error |-> error]

\* Mutant: the catch block logs the error and enqueues nothing.
CatchFrames_Silent(frames, streamError) == frames

\* Lines 228-239: the error frame, with the message of an Error or the
\* default text.
CatchFrames(frames, streamError) ==
  Append(frames,
         ErrorFrame(IF streamError.kind # "string" THEN streamError.message
                    ELSE DEFAULT_STREAM_ERROR))

\* The handler returns the 200 response: start(controller) enqueues the meta
\* frame and the relay begins to read the textStream.
StreamStart ==
  /\ sPc = "idle"
  /\ sPc' = "relaying"
  /\ sFrames' = <<MetaFrame>>
  /\ sStatus' = 200
  /\ UNCHANGED <<sText, sClosed, sCancelled, sFailed, streamOthers>>

\* controller.enqueue and controller.close throw a TypeError once the
\* consumer has cancelled: the catch block's enqueue throws too, then the
\* close of the finally block, and the relay ends in a rejected promise
\* nobody awaits.
RelayCrashes ==
  /\ sPc' = "rejected"
  /\ UNCHANGED <<sFrames, sText, sStatus, sClosed, sCancelled>>

\* The textStream yields a delta (lines 201-211).
StreamDelta(delta) ==
  /\ sPc = "relaying"
  /\ Len(sText) < MaxDeltas
  /\ IF sCancelled
     THEN RelayCrashes
     ELSE /\ sText' = Append(sText, delta)
          /\ sFrames' = Append(sFrames, TextDeltaFrame(delta))
          /\ UNCHANGED <<sPc, sStatus, sClosed, sCancelled>>
  /\ UNCHANGED <<sFailed, streamOthers>>

\* The textStream ends (lines 213-226, 251-253).
StreamEnd ==
  /\ sPc = "relaying"
  /\ IF sCancelled
     THEN RelayCrashes
     ELSE /\ sFrames' = Append(sFrames, DoneFrame(sText))
          /\ sClosed' = TRUE
          /\ sPc' = "closed"
          /\ UNCHANGED <<sText, sStatus, sCancelled>>
  /\ UNCHANGED <<sFailed, streamOthers>>

\* The textStream throws (lines 227-253).
StreamFail(streamError) ==
  /\ sPc = "relaying"
  /\ sFailed' = TRUE
  /\ IF sCancelled
     THEN RelayCrashes
     ELSE /\ sFrames' = CatchFrames(sFrames, streamError)
          /\ sClosed' = TRUE
          /\ sPc' = "closed"
          /\ UNCHANGED <<sText, sStatus, sCancelled>>
  /\ UNCHANGED streamOthers

\* The consumer of the response cancels the stream.
StreamCancel ==
  /\ sPc = "relaying"
  /\ ~sCancelled
  /\ sCancelled' = TRUE
  /\ UNCHANGED <<sPc, sFrames, sText, sStatus, sClosed, sFailed, streamOthers>>

StreamIdle ==
  /\ sPc = "idle"
  /\ sFrames = <<>>
  /\ sText = <<>>
  /\ sStatus = 0
  /\ sClosed = FALSE
  /\ sCancelled = FALSE
  /\ sFailed = FALSE

StreamInit == StreamIdle

StreamNext ==
  \/ StreamStart
  \/ \E delta \in Deltas : StreamDelta(delta)
  \/ StreamEnd
  \/ \E streamError \in StreamErrors : StreamFail(streamError)
  \/ StreamCancel

---------------------------------------------------------------------------
(* Order of the verifier's checks (src/lib/telegram/validate-init-data.ts:69-121) *)

\* Payloads of auth_date and user, each absent, valid or invalid.
OrderPayloads ==
  {Entries(<<"auth_date", "user">>, present, valueOf) :
     present \in SUBSET {"auth_date", "user"},
     valueOf \in [auth_date : AuthDateValues, user : UserValues]}

\* The same digest in upper-case hex digits.
UpperCase(hash) == [i \in 1..Len(hash) |-> HexTok(hash[i].mac, "hex-upper")]

\* The hashes put in place of the signer's.
ForgedHashes(initData) ==
  {WRONG_HASH, MALFORMED_HASH, EmptyString,
   UpperCase(Get(URLSearchParams(initData), "hash"))}

\* The hash of the initData string is replaced, the fields kept.
ForgeHash(hash) ==
  /\ vInitData # <<>>
  /\ vTampered = ""
  /\ hash \in ForgedHashes(vInitData)
  /\ vInitData' = toQueryString(Set(URLSearchParams(vInitData), "hash", hash))
  /\ vTampered' = "hash"
  /\ vResult' = NoVerdict
  /\ UNCHANGED <<vClock, vMaxAge, vPayload, verifyOthers>>

\* The hash is taken out of the initData string.
DropHash ==
  /\ vInitData # <<>>
  /\ vTampered = ""
  /\ vInitData' = toQueryString(RemoveKey(URLSearchParams(vInitData), "hash"))
  /\ vTampered' = "hash"
  /\ vResult' = NoVerdict
  /\ UNCHANGED <<vClock, vMaxAge, vPayload, verifyOthers>>

OrderNext ==
  \/ \E payload \in OrderPayloads : Sign(payload)
  \/ \E key \in {"auth_date", "user"}, value \in AuthDateValues \cup UserValues :
       Tamper(key, value)
  \/ \E hash \in ForgedHashes(vInitData) : ForgeHash(hash)
  \/ DropHash
  \/ VerifyTick
  \/ Validate

---------------------------------------------------------------------------
(* getBackoffMs (src/unnamed/part_003:77-81) *)

\* Math.random() is n / RandomGrain for an n in 0..RandomGrain - 1; the
\* draws of the model are the ends, the middle and every sixteenth value.
RandomGrain == 240

RandomSamples ==
  {n \in 0..(RandomGrain - 1) :
     n % 16 = 0 \/ n \in {1, 2, 119, 120, 121, 237, 238, 239}}

\* Math.round(num / den) for num >= 0: halves go up.
MathRound(num, den) == (2 * num + den) \div (2 * den)

\* Line 79: Math.round(Math.random() * 120)
Jitter(n) == MathRound(n * 120, RandomGrain)

MaxBackoffAttempt == 3   \* delays are computed for attempts 0..MaxBackoffAttempt

\* The delay before the next retry is computed.
Backoff(n) ==
  /\ bAttempt < MaxBackoffAttempt
  /\ bAttempt' = bAttempt + 1
  /\ bDelay' = getBackoffMs(bAttempt + 1, Jitter(n))
  /\ bPrev' = bDelay
  /\ UNCHANGED backoffOthers

BackoffIdle ==
  /\ bAttempt = -1
  /\ bDelay = 0
  /\ bPrev = 0

BackoffInit == BackoffIdle

BackoffNext == \E n \in RandomSamples : Backoff(n)

---------------------------------------------------------------------------
(* consumeRateLimit called with any options (src/lib/http/rate-limit.ts:69-124) *)

\* The limits and windows a caller passes: valid ones, and a limit below 1
\* and a window below 1000 ms.
LimitValues == {0, 1, 2}
WindowMsValues == {999, 1000, 1500}

\* The times (Date.now(), in ms) of the calls, and the calls counted in one
\* window of one key.
ConsumeClocks == {0, 500, 1000, 1500, 2000}
ConsumeCounts == {1, 2, 3}

\* The keys of the callers: the two routes for one client, and one route
\* for another client.
OTHER_CLIENT == "10.0.0.2:no-auth"

ConsumeKeys == StoreKeys \cup {StoreKey(VALIDATE_ROUTE, OTHER_CLIENT)}

\* The calls of the model: any limit and window for the first client, one
\* valid pair for the other.
ConsumeInputs ==
  {<<k, limit, windowMs>> :
     k \in StoreKeys, limit \in LimitValues, windowMs \in WindowMsValues}
  \cup {<<StoreKey(VALIDATE_ROUTE, OTHER_CLIENT), 1, 1000>>}

\* consumeRateLimit({ route, key, limit, windowMs }) at Date.now() = clock.
ConsumeCall(route, key, limit, windowMs) ==
  LET storeKey == StoreKey(route, key)
      options == [route |-> route, key |-> key, limit |-> limit,
                  windowMs |-> windowMs, now |-> clock]
      out == consumeRateLimit(RATE_LIMIT_STORE, options)
  IN /\ (storeKey \in DOMAIN RATE_LIMIT_STORE) =>
          RATE_LIMIT_STORE[storeKey].count + 1 \in ConsumeCounts
     /\ RATE_LIMIT_STORE' = out.store
     /\ rlLast' = [called |-> TRUE, storeKey |-> storeKey, limit |-> limit,
                   windowMs |-> windowMs, now |-> clock,
                   hadEntry |-> storeKey \in DOMAIN RATE_LIMIT_STORE,
                   before |-> IF storeKey \in DOMAIN RATE_LIMIT_STORE
                              THEN RATE_LIMIT_STORE[storeKey]
                              ELSE [count |-> 0, resetAt |-> 0],
                   out |-> [out EXCEPT !.store = <<>>],
                   index |-> 0, granted |-> 0,
                   storeBefore |-> RATE_LIMIT_STORE]
     /\ UNCHANGED <<clock, env, series, inflight, rlOthers>>

\* Time passes between two calls.
ConsumeTick ==
  /\ clock' \in ConsumeClocks
  /\ clock' > clock
  /\ \A later \in ConsumeClocks : later > clock => clock' <= later
  /\ rlLast' = NoCall
  /\ UNCHANGED <<RATE_LIMIT_STORE, env, series, inflight, rlOthers>>

ConsumeNext ==
  \/ \E input \in ConsumeInputs :
       ConsumeCall(input[1][1], input[1][2], input[2], input[3])
  \/ ConsumeTick

---------------------------------------------------------------------------
(* Specifications *)

\* Each specification runs one component and parks the others.
InitRateLimit == RlInit /\ BootIdle /\ RetryIdle /\ VerifyIdle /\ ErrIdle /\ ExtractIdle /\ RouteIdle /\ RepeatIdle /\ StreamIdle /\ BackoffIdle

NextRateLimit == RlNext

SpecRateLimit == InitRateLimit /\ [][NextRateLimit]_vars

InitBootstrap == BootInit /\ RlIdle /\ RetryIdle /\ VerifyIdle /\ ErrIdle /\ ExtractIdle /\ RouteIdle /\ RepeatIdle /\ StreamIdle /\ BackoffIdle

NextBootstrap == BootNext

SpecBootstrap == InitBootstrap /\ [][NextBootstrap]_vars

InitRetry == RetryInit /\ RlIdle /\ BootIdle /\ VerifyIdle /\ ErrIdle /\ ExtractIdle /\ RouteIdle /\ RepeatIdle /\ StreamIdle /\ BackoffIdle

NextRetry == RetryNext

SpecRetry == InitRetry /\ [][NextRetry]_vars

\* The runtime's timers fire and its settled promises resume their awaiters.
SpecRetryFair ==
  /\ SpecRetry
  /\ \A k \in 0..MaxRetries : WF_vars(TimerFire(k))
  /\ WF_vars(\E jitter \in JitterSamples : OpAbortReject(jitter))
  /\ WF_vars(SleepDone)

InitVerify == VerifyInit /\ RlIdle /\ BootIdle /\ RetryIdle /\ ErrIdle /\ ExtractIdle /\ RouteIdle /\ RepeatIdle /\ StreamIdle /\ BackoffIdle

NextVerify == VerifyNext

SpecVerify == InitVerify /\ [][NextVerify]_vars

InitErrors == ErrInit /\ RlIdle /\ BootIdle /\ RetryIdle /\ VerifyIdle /\ ExtractIdle /\ RouteIdle /\ RepeatIdle /\ StreamIdle /\ BackoffIdle

NextErrors == ErrNext

SpecErrors == InitErrors /\ [][NextErrors]_vars

InitExtract == ExtractInit /\ RlIdle /\ BootIdle /\ RetryIdle /\ VerifyIdle /\ ErrIdle /\ RouteIdle /\ RepeatIdle /\ StreamIdle /\ BackoffIdle

NextExtract == ExtractNext

SpecExtract == InitExtract /\ [][NextExtract]_vars

InitRoutes == RouteInit /\ RlIdle /\ BootIdle /\ RetryIdle /\ VerifyIdle /\ ErrIdle /\ ExtractIdle /\ RepeatIdle /\ StreamIdle /\ BackoffIdle
NextRoutes == RouteNext
SpecRoutes == InitRoutes /\ [][NextRoutes]_vars

InitRepeat == RepeatInit /\ RlIdle /\ BootIdle /\ RetryIdle /\ ErrIdle /\ ExtractIdle /\ RouteIdle /\ StreamIdle /\ BackoffIdle
NextRepeat == RepeatNext
SpecRepeat == InitRepeat /\ [][NextRepeat]_vars

InitStream == StreamInit /\ RlIdle /\ BootIdle /\ RetryIdle /\ VerifyIdle /\ ErrIdle /\ ExtractIdle /\ RouteIdle /\ RepeatIdle /\ BackoffIdle
NextStream == StreamNext
SpecStream == InitStream /\ [][NextStream]_vars

InitOrder == VerifyInit /\ RlIdle /\ BootIdle /\ RetryIdle /\ ErrIdle /\ ExtractIdle /\ RouteIdle /\ RepeatIdle /\ StreamIdle /\ BackoffIdle
NextOrder == OrderNext
SpecOrder == InitOrder /\ [][NextOrder]_vars

InitBackoff == BackoffInit /\ RlIdle /\ BootIdle /\ RetryIdle /\ VerifyIdle /\ ErrIdle /\ ExtractIdle /\ RouteIdle /\ RepeatIdle /\ StreamIdle
NextBackoff == BackoffNext
SpecBackoff == InitBackoff /\ [][NextBackoff]_vars

InitConsume == RlIdle /\ BootIdle /\ RetryIdle /\ VerifyIdle /\ ErrIdle /\ ExtractIdle /\ RouteIdle /\ RepeatIdle /\ StreamIdle /\ BackoffIdle
NextConsume == ConsumeNext
SpecConsume == InitConsume /\ [][NextConsume]_vars

---------------------------------------------------------------------------
(* Claims about the rate limiter, checked under SpecRateLimit *)

\* C1: fixed-window counter.  In a series of calls to one key that starts on a
\* fresh (or expired) key and stays before the window's resetAt, with the
\* route's fixed limit L and window W, the i-th call returns remaining = L - i
\* for 1 <= i <= L, and the (L+1)-th call throws HttpRouteError 429 /
\* rate_limited with x-ratelimit-remaining 0 and 1 <= retry-after <= ceil(W/1000).
C1_FixedWindow ==
  rlLast.called =>
    LET i == rlLast.index
        L == rlLast.limit
        W == rlLast.windowMs
    IN /\ (1 <= i /\ i <= L) =>
            /\ rlLast.out.kind = "return"
            /\ rlLast.out.result.remaining = L - i
       /\ (i = L + 1) =>
            /\ rlLast.out.kind = "HttpRouteError"
            /\ rlLast.out.status = 429
            /\ rlLast.out.code = "rate_limited"
            /\ rlLast.out.headers.xRatelimitRemaining = 0
            /\ rlLast.out.headers.retryAfter >= 1
            /\ rlLast.out.headers.retryAfter <= CeilDiv(W, 1000)

\* C1 witness: with L = 2 and W = 2000 the third call of a window is rejected
\* late in the window, with retry-after 1 (below ceil(W/1000) = 2).
C1_Witness ==
  /\ rlLast.called
  /\ rlLast.limit = 2
  /\ rlLast.windowMs = 2000
  /\ rlLast.index = 3
  /\ rlLast.out.kind = "HttpRouteError"
  /\ rlLast.out.headers.retryAfter = 1

\* C2: window reset.  A call made at now >= the stored resetAt of its key
\* returns, stores count = 1 and resetAt = now + windowMs, and reports
\* remaining = limit - 1, whatever the count of the previous window was.
C2_WindowReset ==
  (rlLast.called /\ rlLast.hadEntry /\ rlLast.now >= rlLast.before.resetAt) =>
    /\ rlLast.out.kind = "return"
    /\ rlLast.out.result.remaining = rlLast.limit - 1
    /\ rlLast.out.result.resetAt = rlLast.now + rlLast.windowMs
    /\ rlLast.storeKey \in DOMAIN RATE_LIMIT_STORE
    /\ RATE_LIMIT_STORE[rlLast.storeKey] =
         [count |-> 1, resetAt |-> rlLast.now + rlLast.windowMs]

\* C2 witness: the previous window was over its limit, and the call comes
\* strictly after its resetAt.
C2_Witness ==
  /\ rlLast.called
  /\ rlLast.hadEntry
  /\ rlLast.before.count > rlLast.limit
  /\ rlLast.now > rlLast.before.resetAt
  /\ rlLast.out.kind = "return"

\* C3: under cooperative scheduling (handlers interleave only at awaits, and
\* consumeRateLimit has none), the calls admitted for one key within one
\* window never exceed the key's limit, however the handlers interleave.
C3_NoOverAdmission ==
  \A k \in StoreKeys : series[k].granted <= RouteLimit(env, k[1])

\* C3 witness: while two admitted handlers are suspended at their await, a
\* further request for a key whose window is full is rejected.
C3_Witness ==
  /\ inflight = 2
  /\ rlLast.called
  /\ rlLast.out.kind = "HttpRouteError"
  /\ series[rlLast.storeKey].granted = rlLast.limit
  /\ rlLast.limit = 2

---------------------------------------------------------------------------
(* Claims about the identity bootstrap, checked under SpecBootstrap *)

\* C4: idempotent bootstrap.  With a platform that does not fail, two calls
\* for the same Telegram id that had no account when they began never throw;
\* once both have finished both hold an access token and exactly one
\* createUser for that id has succeeded, the account being in the platform.
C4_IdempotentBootstrap ==
  \A c1, c2 \in CallIds :
    (/\ c1 # c2
     /\ faults = 0
     /\ calls[c1].pc # "idle" /\ calls[c2].pc # "idle"
     /\ calls[c1].telegramId = calls[c2].telegramId
     /\ calls[c1].fresh /\ calls[c2].fresh)
    =>
    /\ calls[c1].pc \notin {"threwCreate", "threwSignIn"}
    /\ calls[c2].pc \notin {"threwCreate", "threwSignIn"}
    /\ (calls[c1].pc = "returned" /\ calls[c2].pc = "returned") =>
         /\ calls[c1].accessToken # NoToken
         /\ calls[c2].accessToken # NoToken
         /\ created[calls[c1].telegramId] = 1
         /\ deriveTelegramCredentials(calls[c1].telegramId,
                                      TELEGRAM_BOT_TOKEN).email \in DOMAIN users

\* C4 witness: the race.  Both calls missed their first sign-in and both
\* called createUser (one was told the account exists); both returned.
C4_Witness ==
  \E c1, c2 \in CallIds :
    /\ c1 # c2
    /\ faults = 0
    /\ calls[c1].telegramId = calls[c2].telegramId
    /\ calls[c1].fresh /\ calls[c2].fresh
    /\ calls[c1].pc = "returned" /\ calls[c2].pc = "returned"
    /\ calls[c1].creates = 1 /\ calls[c2].creates = 1
    /\ calls[c1].accessToken # calls[c2].accessToken

\* The error messages of createUser the claims call "already registered".
AlreadyRegisteredMessages ==
  {MSG_ALREADY_BEEN_REGISTERED, MSG_ALREADY_REGISTERED}

\* C18: when the first sign-in fails and createUser then fails with a
\* message that matches neither "already registered" nor "already been
\* registered" (ignoring case), the call throws at once and attempts no
\* second sign-in; when createUser succeeds or fails with such a message,
\* the call goes on to exactly one further sign-in.
C18_FatalCreate ==
  \A c \in CallIds :
    /\ (calls[c].pc = "threwCreate" => calls[c].creates = 1)
    /\ (/\ calls[c].creates = 1
        /\ calls[c].createError \notin AlreadyRegisteredMessages \cup {<<>>}
        => /\ calls[c].pc = "threwCreate"
           /\ calls[c].signIns = 1)
    /\ (/\ calls[c].creates = 1
        /\ calls[c].createError \in AlreadyRegisteredMessages \cup {<<>>}
        => \/ calls[c].pc = "signInAgain" /\ calls[c].signIns = 1
           \/ calls[c].pc \in {"returned", "threwSignIn"} /\ calls[c].signIns = 2)

\* A call threw on a database error of createUser, one sign-in in, while
\* the other call, told the account exists, went on to its second sign-in.
C18_Witness ==
  \E c1, c2 \in CallIds :
    /\ calls[c1].pc = "threwCreate"
    /\ calls[c1].createError = MSG_DATABASE_ERROR
    /\ calls[c1].signIns = 1
    /\ calls[c2].pc = "returned"
    /\ calls[c2].createError \in {<<>>} \cup AlreadyRegisteredMessages
    /\ calls[c2].creates = 1
    /\ calls[c2].signIns = 2

\* What one step may do to a call: the platform calls come in the order
\* sign-in, createUser, sign-in, and a call that returned or threw does
\* nothing more.
CallOrder(c) ==
  /\ calls'[c].signIns > calls[c].signIns =>
        /\ calls'[c].signIns = calls[c].signIns + 1
        /\ calls'[c].creates = calls[c].creates
        /\ calls[c].signIns = calls[c].creates
  /\ calls'[c].creates > calls[c].creates =>
        /\ calls'[c].creates = calls[c].creates + 1
        /\ calls'[c].signIns = calls[c].signIns
        /\ calls[c].signIns = 1 /\ calls[c].creates = 0
  /\ calls[c].pc \in {"returned", "threwCreate", "threwSignIn"} =>
        calls'[c] = calls[c]
  /\ (calls[c].pc = "signIn" /\ calls'[c].pc = "returned") =>
        /\ calls'[c].creates = 0
        /\ calls'[c].accessToken =
             [sub |-> deriveTelegramCredentials(calls[c].telegramId,
                                                TELEGRAM_BOT_TOKEN).email,
              seq |-> sessions']
  /\ (calls[c].pc = "signInAgain" /\ calls'[c].signIns > calls[c].signIns) =>
        calls'[c].pc \in {"returned", "threwSignIn"}

CallBound(c) ==
  /\ calls[c].signIns <= 2
  /\ calls[c].creates <= 1
  /\ calls[c].signIns + calls[c].creates <= 3
  /\ (calls[c].pc = "returned" =>
        /\ calls[c].accessToken # NoToken
        /\ calls[c].signIns = 1 + calls[c].creates)
  /\ (calls[c].pc = "threwSignIn" =>
        calls[c].signIns = 2 /\ calls[c].creates = 1)

\* C19: one ensureTelegramAuthUser call makes at most two sign-in attempts
\* and at most one createUser call, in the order sign-in, create, sign-in;
\* if the first sign-in succeeds no createUser call is made and its token is
\* returned; if the second sign-in fails the call throws and retries
\* nothing; a call ends after at most three platform calls.
C19_CallBound ==
  /\ [](\A c \in CallIds : CallBound(c))
  /\ [][\A c \in CallIds : CallOrder(c)]_vars

\* A call threw after its second sign-in failed, three platform calls in;
\* another returned the token of its first sign-in.
C19_Witness ==
  \E c1, c2 \in CallIds :
    /\ calls[c1].pc = "threwSignIn"
    /\ calls[c1].signIns = 2 /\ calls[c1].creates = 1
    /\ calls[c2].pc = "returned"
    /\ calls[c2].signIns = 1 /\ calls[c2].creates = 0

---------------------------------------------------------------------------
(* Retry/timeout envelope: claims C5-C7 (SpecRetry, SpecRetryFair) *)

EventsOf(ev) == {i \in 1..Len(rLog) : rLog[i].ev = ev}

RetryDone == rPc \in {"returned", "threw"}

Carries503(error) == error.status = Num(503) \/ error.statusCode = Num(503)

EveryAttemptFailed503 ==
  /\ RetryDone
  /\ EventsOf("resolve") = {}
  /\ Cardinality(EventsOf("fail")) = Cardinality(EventsOf("invoke"))
  /\ \A i \in EventsOf("fail") : Carries503(rLog[i].err)

\* C5 (bounded retry): a call with retries = R never invokes the operation
\* more than R + 1 times; when every attempt fails with an error carrying
\* status 503, the operation is invoked exactly R + 1 times, onRetry is
\* called exactly R times, and the call rejects with the error object of the
\* last attempt, unchanged.
C5_BoundedRetry ==
  /\ Cardinality(EventsOf("invoke")) <= rOptions.retries + 1
  /\ EveryAttemptFailed503 =>
       /\ Cardinality(EventsOf("invoke")) = rOptions.retries + 1
       /\ Cardinality(EventsOf("onRetry")) = rOptions.retries
       /\ rPc = "threw"
       /\ rOutcome.kind = "throw"
       /\ rOutcome.from = rOptions.retries
       /\ rLog[Len(rLog)].ev = "fail"
       /\ rLog[Len(rLog)].k = rOptions.retries
       /\ rOutcome.error = rLog[Len(rLog)].err

\* C5 witness: two retries, three failures with a 503, the call is over.
C5_Witness ==
  /\ EveryAttemptFailed503
  /\ rOptions.retries = 2
  /\ Cardinality(EventsOf("fail")) = 3

NonRetryableStatus(error) ==
  /\ ~isAbortError(error)
  /\ getStatusCode(error) # NoStatusCode
  /\ ~(getStatusCode(error) >= 500 \/ getStatusCode(error) = 429
       \/ getStatusCode(error) = 408)

\* C6 (non-retryable status): once an attempt fails with a non-abort error
\* whose numeric status is none of 429, 408, >= 500, whatever its message
\* says, nothing more happens in the call (no invocation, no onRetry, no
\* backoff sleep) and the call has rejected with that same error object,
\* however many retries remain.
C6_NonRetryableStatus ==
  \A i \in EventsOf("fail") :
    NonRetryableStatus(rLog[i].err) =>
      /\ i = Len(rLog)
      /\ rPc = "threw"
      /\ rOutcome.kind = "throw"
      /\ rOutcome.error = rLog[i].err
      /\ rOutcome.from = rLog[i].k

\* C6 witness: a 404 whose message has a retryable keyword, on the first
\* attempt of a call that had two retries left.
C6_Witness ==
  \E i \in EventsOf("fail") :
    /\ NonRetryableStatus(rLog[i].err)
    /\ RetryableMessage(rLog[i].err.message)
    /\ rLog[i].k = 0
    /\ rOptions.retries = 2
    /\ rPc = "threw"

TimedOut ==
  /\ rPc = "threw"
  /\ rOutcome.kind = "throw"
  /\ rOutcome.error = TimeoutError(OPERATION_NAME, OPENAI_REQUEST_TIMEOUT_MS)

\* C7 (timeout surfaces distinctly): a call with retries = 0 whose operation
\* never settles on its own eventually terminates, rejected with the
\* dedicated "<operationName> timed out after <timeoutMs>ms" error.
C7_TimeoutSurfaces ==
  (rPc = "running" /\ rOptions.retries = 0 /\ ~rOptions.settles) ~> TimedOut

\* C7, for operations that reject with an AbortError once their signal is
\* aborted: the call terminates with the timeout error.
C7_HonoringOperationTimesOut ==
  (rPc = "running" /\ rOptions.retries = 0 /\ ~rOptions.settles
     /\ rOptions.honorsAbort) ~> TimedOut

\* C7: the run that never terminates.  The timer has fired and aborted the
\* controller, the operation ignores its signal, the call still awaits it.
C7_Hung ==
  /\ rPc = "running"
  /\ rOptions.retries = 0
  /\ ~rOptions.settles /\ ~rOptions.honorsAbort
  /\ rArmed = {}
  /\ rAborted = {0}
  /\ ~ENABLED NextRetry

---------------------------------------------------------------------------
(* initData verifier: claims C8-C10 (SpecVerify) *)

Validated == vResult.kind # "none"

CorrectlySigned == vInitData # <<>> /\ vTampered = ""

\* The signed payload's auth_date is a positive integer and its user is a
\* JSON object the schema accepts.
SignedAuthDate == Number(Get(vPayload, "auth_date"))

ValidAuthDateAndUser ==
  /\ HasKey(vPayload, "auth_date")
  /\ SignedAuthDate.kind = "num" /\ SignedAuthDate.n > 0
  /\ HasKey(vPayload, "user")
  /\ IsJson(Get(vPayload, "user"))
  /\ SchemaAccepts(JSONparse(Get(vPayload, "user")))

\* now - auth_date, now being the current Unix time in whole seconds.
Age == (vClock \div 1000) - SignedAuthDate.n

\* C8 (freshness boundary): a correctly signed payload with a valid user
\* and a positive integer auth_date is accepted if and only if
\* now - auth_date <= maxAgeSeconds; otherwise it is rejected with the
\* 'expired' TelegramAuthError.  The boundary is inclusive.
C8_FreshnessBoundary ==
  (Validated /\ CorrectlySigned /\ ValidAuthDateAndUser) =>
    /\ (vResult.kind = "return") <=> (Age <= vMaxAge)
    /\ (Age > vMaxAge) =>
         /\ vResult.kind = "TelegramAuthError"
         /\ vResult.message = "Telegram initData has expired"

\* C8 witness: the boundary.  The payload is exactly maxAgeSeconds old, the
\* clock is between two seconds, and the payload is accepted.
C8_Witness ==
  /\ Validated /\ CorrectlySigned /\ ValidAuthDateAndUser
  /\ Age = vMaxAge
  /\ vClock % 1000 # 0
  /\ vResult.kind = "return"

\* C9 (tamper detection): after the value of any one field other than hash
\* of a validly signed payload has been changed and the hash kept, the
\* verifier fails with the 'signature mismatch' TelegramAuthError, never
\* with another error and never with success.
C9_TamperDetection ==
  (Validated /\ vTampered # "") =>
    /\ vResult.kind = "TelegramAuthError"
    /\ vResult.message = "Telegram initData signature mismatch"

\* C9 witness: a field the verifier does not read was changed in a payload
\* that was acceptable as signed; the verifier said signature mismatch.
C9_Witness ==
  /\ Validated
  /\ vTampered = "chat_type"
  /\ ValidAuthDateAndUser /\ Age <= vMaxAge
  /\ vResult.message = "Telegram initData signature mismatch"

\* The hash the signer put in the initData string.
SignedHash ==
  HexDigest(HmacHex(HmacHex("WebAppData", TELEGRAM_BOT_TOKEN),
                    JoinLines(SortByKey(vPayload))))

\* C10 (signature round-trip): a signed set of fields with a fresh positive
\* integer auth_date and a schema-valid user JSON is accepted by the
\* verifier under the same bot token, and the result has the embedded
\* user's fields unchanged, the hash and the raw initData string.
C10_SignatureRoundTrip ==
  (Validated /\ CorrectlySigned /\ ValidAuthDateAndUser /\ Age <= vMaxAge) =>
    /\ vResult.kind = "return"
    /\ \A k \in SchemaKeys :
         vResult.user[k] = JSONparse(Get(vPayload, "user"))[k]
    /\ vResult.authDate = SignedAuthDate.n
    /\ vResult.hash = SignedHash
    /\ vResult.raw = vInitData

\* C10 witness: a payload listing user first, with every optional user
\* field, a query_id and a chat_type, was signed and accepted.
C10_Witness ==
  /\ Validated /\ CorrectlySigned /\ ValidAuthDateAndUser /\ Age <= vMaxAge
  /\ vPayload[1][1] = "user"
  /\ Get(vPayload, "user") = Str(USER_FULL)
  /\ HasKey(vPayload, "query_id") /\ HasKey(vPayload, "chat_type")
  /\ vResult.kind = "return"
  /\ vResult.user["is_premium"] = JBoolean(TRUE)

---------------------------------------------------------------------------
(* Error taxonomy: claim C12 (SpecErrors) *)

\* The rules for the three error classes, as the response shows them.
ClassifiedAsItsClass ==
  /\ eThrown.kind = "TelegramAuthError" =>
       /\ eOut.response.status = eThrown.status
       /\ eOut.response.body.error = eThrown.message
       /\ eOut.response.body.code = Some("telegram_auth")
       /\ eOut.log.code = "telegram_auth"
  /\ eThrown.kind = "ZodError" =>
       /\ eOut.response.status = 400
       /\ eOut.response.body.code = Some("invalid_request")
       /\ eOut.response.body.details = Some(eThrown.fieldErrors)
       /\ eOut.log.code = "invalid_request"
  /\ eThrown.kind = "HttpRouteError" =>
       /\ eOut.response.status = eThrown.status
       /\ eOut.response.body.error = eThrown.message
       /\ eOut.response.body.code = eThrown.code
       /\ eOut.response.body.details = eThrown.details
       /\ eOut.response.headers.xRatelimitLimit = eThrown.headers.xRatelimitLimit
       /\ eOut.response.headers.xRatelimitRemaining
            = eThrown.headers.xRatelimitRemaining
       /\ eOut.response.headers.xRatelimitReset = eThrown.headers.xRatelimitReset
       /\ eOut.response.headers.retryAfter = eThrown.headers.retryAfter

AnythingElse ==
  eThrown.kind \notin {"TelegramAuthError", "ZodError", "HttpRouteError"}

\* C12 (error taxonomy), as the code has it: a TelegramAuthError answers
\* with its own status and code telegram_auth, a ZodError with 400,
\* invalid_request and the field errors, an HttpRouteError with its own
\* status, code, details and headers; anything else answers with 500 and the
\* message "Internal server error", its body has no code, and internal_error
\* is the code of the logged record only.
C12_ErrorTaxonomy ==
  eOut.handled =>
    /\ ClassifiedAsItsClass
    /\ AnythingElse =>
         /\ eOut.response.status = 500
         /\ eOut.response.body.error = "Internal server error"
         /\ eOut.response.body.code = Undefined
         /\ eOut.response.body.details = Undefined
         /\ eOut.log.code = "internal_error"

\* C12 witness: a plain Error was handled within a request context.
C12_Witness ==
  /\ eOut.handled
  /\ eThrown.kind = "Error"
  /\ eContext.present
  /\ eOut.response.status = 500
  /\ eOut.response.headers.xRequestId = Some(eContext.requestId)

\* C12 as stated: anything else answers with 500 and code internal_error.
C12_AsStated ==
  eOut.handled =>
    /\ ClassifiedAsItsClass
    /\ AnythingElse =>
         /\ eOut.response.status = 500
         /\ eOut.response.body.code = Some("internal_error")

---------------------------------------------------------------------------
(* extractInitDataFromRequest: claim C16 (SpecExtract) *)

AuthorizationText ==
  IF xHeaders.authorization = Undefined THEN <<>>
  ELSE TrimText(CHOOSE value \in xHeaders.authorization : TRUE)

\* Everything after the scheme and its space, trimmed.
AuthorizationPayload ==
  TrimText(SubSeq(AuthorizationText, 3, Len(AuthorizationText)))

\* The scheme is Bearer or tma in some letter case and a payload follows.
AuthorizationUsable ==
  /\ Len(AuthorizationText) >= 2
  /\ AuthorizationText[1] \in {"tma", "BeArEr"}
  /\ AuthorizationText[2] = SPACE
  /\ AuthorizationPayload # <<>>

FallbackText ==
  IF xHeaders.xTelegramInitData = Undefined THEN <<>>
  ELSE TrimText(CHOOSE value \in xHeaders.xTelegramInitData : TRUE)

\* C16: extractInitDataFromRequest returns the Authorization payload when
\* the scheme is Bearer or tma (any letter case) and the payload is not
\* empty; otherwise the trimmed x-telegram-init-data header when that is
\* not empty; otherwise it throws TelegramAuthError with status 401.  The
\* Authorization payload wins when both are usable.
C16_ExtractInitData ==
  xResult.kind # "none" =>
    /\ AuthorizationUsable =>
         xResult.kind = "return" /\ xResult.initData = AuthorizationPayload
    /\ (~AuthorizationUsable /\ FallbackText # <<>>) =>
         xResult.kind = "return" /\ xResult.initData = FallbackText
    /\ (~AuthorizationUsable /\ FallbackText = <<>>) =>
         xResult.kind = "TelegramAuthError" /\ xResult.status = 401

\* C16 witness: a mixed-case Bearer scheme, a payload padded with spaces
\* and a usable fallback header; the Authorization payload was returned.
C16_Witness ==
  /\ xResult.kind = "return"
  /\ AuthorizationUsable
  /\ AuthorizationText[1] = "BeArEr"
  /\ Len(AuthorizationText) = 4
  /\ FallbackText # <<>> /\ FallbackText # AuthorizationPayload
  /\ xResult.initData = AuthorizationPayload

---------------------------------------------------------------------------
(* Claims about the route handlers *)

\* The last response answers a DELETE /api/ai/memory of a caller whose
\* session was awaited, for the id of a row another user owned.
CrossUserDelete ==
  /\ aLast.present
  /\ aLast.handler = "memoryDelete"
  /\ aLast.telegramId # ""
  /\ IsUuid(aLast.body.id)
  /\ aLast.documentsBefore[aLast.body.id] \notin {NoOwner, aLast.telegramId}

\* C11: a DELETE /api/ai/memory authenticated as one user for the id of a
\* document another user owns is never answered 200 {deleted: true} and
\* never removes the row, whatever requests came before; when the session
\* and the database answer, the response is 404 with code memory_not_found.
C11_CrossUserDelete ==
  CrossUserDelete =>
    /\ aLast.response.status # 200
    /\ aLast.removed = {}
    /\ aDocuments[aLast.body.id] = aLast.documentsBefore[aLast.body.id]
    /\ (aLast.outcome = "ok" =>
          /\ aLast.response.status = 404
          /\ aLast.response.body.code = Some("memory_not_found"))

\* User 42 asked to delete the row of user 7, after embedding a document of
\* their own, and was answered 404.
C11_Witness ==
  /\ CrossUserDelete
  /\ aLast.telegramId = "42"
  /\ aLast.documentsBefore["d1"] = "7"
  /\ aLast.documentsBefore["d2"] = "42"
  /\ aLast.body.id = "d1"
  /\ aLast.response.status = 404
  /\ aDocuments["d1"] = "7"

\* The rate-limit headers of the last response are all there, and tell the
\* limit configured for its route.
CarriesRateLimitHeaders ==
  /\ aLast.response.headers.xRatelimitLimit = aLast.limit
  /\ aLast.response.headers.xRatelimitRemaining >= 0
  /\ aLast.response.headers.xRatelimitRemaining < aLast.limit
  /\ aLast.response.headers.xRatelimitReset > 0

\* The last response has none of the rate-limit headers.
CarriesNoRateLimitHeaders ==
  /\ aLast.response.headers.xRatelimitLimit = -1
  /\ aLast.response.headers.xRatelimitRemaining = -1
  /\ aLast.response.headers.xRatelimitReset = -1
  /\ aLast.response.headers.retryAfter = -1

\* C13 (as amended): every response of a rate-limited endpoint carries
\* x-request-id; a 200 carries x-ratelimit-limit, -remaining and -reset with
\* the limit configured for the route and no retry-after; a 429 carries the
\* three and retry-after; every other error response (400, 401, 403, 404,
\* 500), although produced after the rate-limit check passed, carries none
\* of the four.
C13_RateLimitHeaders ==
  aLast.present =>
    /\ aLast.response.headers.xRequestId = Some(RequestIdOf(aLast.slot))
    /\ aLast.response.status \in {200, 400, 401, 403, 404, 429, 500}
    /\ (aLast.response.status = 200 =>
          /\ aLast.passedRateLimit
          /\ CarriesRateLimitHeaders
          /\ aLast.response.headers.retryAfter = -1)
    /\ (aLast.response.status = 429 =>
          /\ ~aLast.passedRateLimit
          /\ CarriesRateLimitHeaders
          /\ aLast.response.headers.xRatelimitRemaining = 0
          /\ aLast.response.headers.retryAfter >= 1)
    /\ (aLast.response.status \notin {200, 429} =>
          /\ aLast.passedRateLimit
          /\ CarriesNoRateLimitHeaders)

\* C13 as stated: every response, success or error, carries the three
\* rate-limit headers, and a 429 carries retry-after.
C13_AsStated ==
  aLast.present =>
    /\ CarriesRateLimitHeaders
    /\ (aLast.response.status = 429 => aLast.response.headers.retryAfter >= 1)

\* A request within its limit was answered 403, with no rate-limit header.
C13_Witness ==
  /\ aLast.present
  /\ aLast.passedRateLimit
  /\ aLast.response.status = 403
  /\ CarriesNoRateLimitHeaders

\* The last response answers a verify-upload request of an authenticated
\* caller whose body passed the schema.
VerifyUploadServed ==
  /\ aLast.present
  /\ aLast.handler = "verifyUpload"
  /\ aLast.telegramId # ""
  /\ aLast.outcome # "sessionFailed"
  /\ FieldErrors("verifyUpload", aLast.body) = {}

\* A folder is inside the folder of T: it is T, or its path goes on from "T/".
InsideFolderOf(folderPath, telegramId) ==
  /\ folderPath # <<>>
  /\ folderPath[1] = telegramId
  /\ Len(folderPath) > 1 => folderPath[2] = SLASH

\* C15: for an authenticated caller with Telegram id T, a verify-upload
\* request whose path does not start with "T/" is answered 403 with code
\* forbidden_path and no storage list call is made for it; a storage list
\* call is only ever made for a folder inside the caller's own folder.
C15_FolderConfinement ==
  /\ (VerifyUploadServed /\ ~StartsWithFolder(aLast.body.path, aLast.telegramId) =>
        /\ aLast.response.status = 403
        /\ aLast.response.body.code = Some("forbidden_path")
        /\ aLast.listCalls = {})
  /\ (aLast.present =>
        \A call \in aLast.listCalls :
          /\ aLast.handler = "verifyUpload"
          /\ aLast.telegramId # ""
          /\ InsideFolderOf(call.folderPath, aLast.telegramId))

\* User 42 asked about a file in the folder of user 7 and was answered 403.
C15_Witness ==
  /\ VerifyUploadServed
  /\ aLast.telegramId = "42"
  /\ aLast.body.path = <<"7", SLASH, "a.png">>
  /\ aLast.response.status = 403
  /\ aLast.listCalls = {}

\* User 42 asked about a file in a folder of their own, and the list call
\* was made for that folder.
C15_WitnessListed ==
  /\ VerifyUploadServed
  /\ aLast.telegramId = "42"
  /\ aLast.response.status = 200
  /\ aLast.listCalls = {[folderPath |-> <<"42", SLASH, "docs">>,
                          search |-> <<"a.png">>]}

\* The last response answers a POST /api/ai/embed whose body passed the
\* schema and whose embedding was not produced: withTimeoutAndRetry threw
\* the provider's last error or the timeout error.
EmbeddingFailed ==
  /\ aLast.present
  /\ aLast.handler = "embed"
  /\ aLast.outcome = "embeddingFailed"
  /\ FieldErrors("embed", aLast.body) = {}

\* C17 (as amended): when embedding generation for POST /api/ai/embed
\* fails, the endpoint responds with HTTP 500, the message "Internal server
\* error" and no code, and no document is inserted.
C17_EmbeddingFailure ==
  EmbeddingFailed =>
    /\ aLast.response.status = 500
    /\ aLast.response.body.error = "Internal server error"
    /\ aLast.response.body.code = Undefined
    /\ aLast.inserted = {}
    /\ aDocuments = aLast.documentsBefore

\* C17 as stated: the endpoint responds with HTTP 502 and no document is
\* inserted.
C17_AsStated ==
  EmbeddingFailed =>
    /\ aLast.response.status = 502
    /\ aLast.inserted = {}

\* The embedding of user 42's note failed, and the table is as it was.
C17_Witness ==
  /\ EmbeddingFailed
  /\ aLast.telegramId = "42"
  /\ aLast.response.status = 500
  /\ aDocuments["d2"] = NoOwner

---------------------------------------------------------------------------
(* initData strings with repeated names: claim C20 (SpecRepeat) *)

\* The values a name has in a string, in the order of the string.
ValuesNamed(params, key) ==
  LET named == SelectSeq(params, LAMBDA pair : pair[1] = key)
  IN [i \in 1..Len(named) |-> named[i][2]]

FirstNamed(params, key) ==
  IF ValuesNamed(params, key) = <<>> THEN NoValue
  ELSE Head(ValuesNamed(params, key))

\* The pairs of a string with, of each name, only the last one.
RECURSIVE LastOccurrences(_)
LastOccurrences(params) ==
  IF params = <<>> THEN <<>>
  ELSE IF HasKey(Tail(params), Head(params)[1])
       THEN LastOccurrences(Tail(params))
  ELSE <<Head(params)>> \o LastOccurrences(Tail(params))

\* The verdict is an acceptance with the fields the first pair of each
\* name gives.
AcceptedWithFirstValues ==
  /\ vResult.kind = "return"
  /\ vResult.authDate = Number(FirstNamed(vPayload, "auth_date")).n
  /\ \A k \in SchemaKeys :
       vResult.user[k] = JSONparse(FirstNamed(vPayload, "user"))[k]
  /\ vResult.queryId = FirstNamed(vPayload, "query_id")
  /\ vResult.hash = SignedHash
  /\ vResult.raw = vInitData

RejectedWith(message) ==
  /\ vResult.kind = "TelegramAuthError"
  /\ vResult.message = message

LastOccurrenceVerdict ==
  validateTelegramInitData(toQueryString(LastOccurrences(URLSearchParams(vInitData))),
                           TELEGRAM_BOT_TOKEN, vMaxAge, vClock)

C20_WitnessSameValue ==
  /\ Validated
  /\ vRepeated = [key |-> "auth_date", value |-> Str("1"), position |-> "last"]
  /\ FirstNamed(vPayload, "auth_date") = Str("1")
  /\ RejectedWith("Telegram initData signature mismatch")

---------------------------------------------------------------------------
(* The response stream of /api/ai/complete: claim C14 (SpecStream) *)

IsTerminal(frame) == frame.type \in {"done", "error"}

\* The frames so far are a meta frame, then text-delta frames, then at most
\* one done or error frame, which is the last.
FrameOrder ==
  /\ sPc # "idle" => Len(sFrames) >= 1 /\ sFrames[1].type = "meta"
  /\ \A i \in 2..Len(sFrames) : sFrames[i].type \in {"text-delta", "done", "error"}
  /\ \A i \in 1..Len(sFrames) : IsTerminal(sFrames[i]) => i = Len(sFrames)

\* C14: the body of a started /api/ai/complete response is one meta frame,
\* then zero or more text-delta frames, then one terminal frame, done or
\* error and never both, after which the stream is closed and no frame
\* follows; a failure of the provider in mid-stream gives an error frame, the
\* status staying 200.  (A stream its consumer cancelled ends where it was
\* cancelled.)
C14_FrameOrder ==
  /\ [](/\ FrameOrder
        /\ sPc # "idle" => sStatus = 200
        /\ sClosed <=> sPc = "closed"
        /\ sClosed => IsTerminal(sFrames[Len(sFrames)])
        /\ sClosed /\ sFailed => sFrames[Len(sFrames)].type = "error"
        /\ sClosed /\ ~sFailed =>
             /\ sFrames[Len(sFrames)].type = "done"
             /\ sFrames[Len(sFrames)].text = sText
        /\ sPc = "rejected" => sCancelled)
  /\ [][sClosed => UNCHANGED <<sFrames, sClosed, sStatus>>]_vars
  /\ [][sFrames # <<>> => SubSeq(sFrames', 1, Len(sFrames)) = sFrames]_vars

\* The provider failed after two deltas: meta, two text-delta frames, and an
\* error frame with the provider's message, on a closed stream.
C14_Witness ==
  /\ sClosed
  /\ sFailed
  /\ Len(sFrames) = 4
  /\ sFrames[2].type = "text-delta" /\ sFrames[3].type = "text-delta"
  /\ sFrames[4] = ErrorFrame("Service unavailable")
  /\ sStatus = 200

---------------------------------------------------------------------------
(* Order of the verifier's checks: claim C21 (SpecOrder) *)

\* The steps in the order the claim gives them, each with its message.
STEP_MESSAGES ==
  <<"Telegram hash is missing or malformed",
    "Telegram initData signature mismatch",
    "Telegram auth_date is missing or invalid",
    "Telegram initData has expired",
    "Telegram user payload is missing",
    "Telegram user payload is invalid JSON",
    "Telegram user payload is invalid">>

PresentedParams == URLSearchParams(vInitData)

PresentedHash == toLowerCase(Get(PresentedParams, "hash"))

PresentedAuthDate == Number(Get(PresentedParams, "auth_date"))

PresentedUser == Get(PresentedParams, "user")

\* Whether a step, taken by itself, fails on the presented string.
StepFails(step) ==
  CASE step = 1 -> ~HasKey(PresentedParams, "hash") \/ ~IsHex64(PresentedHash)
    [] step = 2 ->
         PresentedHash #
           HexDigest(HmacHex(HmacHex("WebAppData", TELEGRAM_BOT_TOKEN),
                             JoinLines(SortByKey(RemoveKey(PresentedParams, "hash")))))
    [] step = 3 -> PresentedAuthDate.kind # "num" \/ PresentedAuthDate.n <= 0
    [] step = 4 ->
         /\ PresentedAuthDate.kind = "num"
         /\ (vClock \div 1000) - PresentedAuthDate.n > vMaxAge
    [] step = 5 -> IsNull(PresentedUser) \/ PresentedUser = EmptyString
    [] step = 6 -> ~IsNull(PresentedUser) /\ ~IsJson(PresentedUser)
    [] step = 7 ->
         \/ IsNull(PresentedUser)
         \/ IsJson(PresentedUser) /\ ~SchemaAccepts(JSONparse(PresentedUser))

FailingSteps == {step \in 1..7 : StepFails(step)}

FirstFailingStep == CHOOSE step \in FailingSteps : \A other \in FailingSteps : step <= other

\* C21 (check precedence): the failure reported is that of the first
\* failing step in the order hash format, signature, auth_date validity,
\* expiry, user presence, user JSON, user schema, and a string that fails
\* none is accepted; a string whose hash is malformed or does not verify is
\* rejected with 'hash missing or malformed' or 'signature mismatch', never
\* with an error about auth_date, the expiry or the user payload.
C21_CheckPrecedence ==
  Validated =>
    /\ (FailingSteps = {}) <=> (vResult.kind = "return")
    /\ (FailingSteps # {}) =>
         /\ vResult.kind = "TelegramAuthError"
         /\ vResult.message = STEP_MESSAGES[FirstFailingStep]
    /\ (StepFails(1) \/ StepFails(2)) =>
         vResult.message \in {STEP_MESSAGES[1], STEP_MESSAGES[2]}

\* C21 witness: the user of a signed payload whose auth_date is no number
\* was changed to a text that is no JSON; the signature, the auth_date and
\* the user JSON steps all fail and the verifier said signature mismatch.
C21_Witness ==
  /\ Validated
  /\ vTampered = "user"
  /\ FailingSteps = {2, 3, 6}
  /\ vResult.message = "Telegram initData signature mismatch"

\* C21, second case: the hash was replaced by a malformed one in a payload
\* that has expired and has no user; the verifier said hash malformed.
C21_WitnessMalformed ==
  /\ Validated
  /\ vTampered = "hash"
  /\ {1, 4, 5} \subseteq FailingSteps
  /\ vResult.message = "Telegram hash is missing or malformed"

---------------------------------------------------------------------------
(* Route handlers: claim C22 (SpecRoutes) *)

\* The Telegram id the verifier finds in the credentials of a request as
\* the request's handler saw them; "" if it accepts none.
VerifiedId(credentials) ==
  IF credentials = INIT_DATA_42 THEN "42"
  ELSE IF credentials = INIT_DATA_7 THEN "7"
  ELSE ""

\* The request failed the limiter, the verification or the bootstrap.
FailedBeforeBusinessLogic ==
  \/ aLast.response.status \in {401, 429}
  \/ ~aLast.passedRateLimit
  \/ VerifiedId(aLast.credentials) = ""
  \/ aLast.outcome = "sessionFailed"

C22_WitnessServed ==
  /\ aLast.present
  /\ aLast.handler = "complete"
  /\ aLast.operations = <<"embed", "match_documents", "streamText">>
  /\ aLast.response.status = 200

---------------------------------------------------------------------------
(* Retry/timeout envelope: claims C23, C24, C30 (SpecRetry) *)

\* The step invokes the operation: an attempt begins.
AttemptBegins ==
  /\ Len(rLog') > Len(rLog)
  /\ rLog'[Len(rLog')].ev = "invoke"

\* At most the timer of the running attempt is pending, and none once the
\* call has returned or thrown.
NoLeakedTimer ==
  /\ Cardinality(rArmed) <= 1
  /\ rArmed \subseteq {rAttempt}
  /\ RetryDone => rArmed = {}

\* C23 (no leaked timers): each attempt arms exactly one timeout timer; the
\* timer of an attempt is disarmed (or has fired) before the timer of the
\* next attempt is armed, so at most one is pending at any time; and when
\* the call has returned or thrown, by success or by a final failure, no
\* timer it armed is still pending.
C23_NoLeakedTimers ==
  /\ [](NoLeakedTimer)
  /\ [][AttemptBegins =>
          /\ rArmed' = {rLog'[Len(rLog')].k}
          /\ rAttempt' = rLog'[Len(rLog')].k]_vars
  /\ [][(rArmed' \ rArmed # {}) => AttemptBegins]_vars

\* C23 witness: a call with two retries failed three times and threw, no
\* timer ever fired, and none is pending.
C23_Witness ==
  /\ rPc = "threw"
  /\ rOptions.retries = 2
  /\ Cardinality(EventsOf("fail")) = 3
  /\ EventsOf("fire") = {}
  /\ rArmed = {}

\* The log without the timers' events.
RECURSIVE WithoutFires(_)
WithoutFires(log) ==
  IF log = <<>> THEN <<>>
  ELSE IF Head(log).ev = "fire" THEN WithoutFires(Tail(log))
  ELSE <<Head(log)>> \o WithoutFires(Tail(log))

CallEvents == WithoutFires(rLog)

\* The onRetry calls among the first i events of the call.
OnRetryCallsUpTo(i) ==
  Cardinality({j \in 1..i : CallEvents[j].ev = "onRetry"})

\* The k-th onRetry call has attempt number k and the error of the k-th
\* failed invocation, which is the event before it; the backoff sleep is
\* the event after it, and what follows is the (k+1)-th invocation.
OnRetryInOrder(i) ==
  LET k == OnRetryCallsUpTo(i)
  IN /\ CallEvents[i].k = k
     /\ i > 1
     /\ CallEvents[i - 1].ev = "fail"
     /\ CallEvents[i - 1].k = k - 1
     /\ CallEvents[i - 1].err = CallEvents[i].err
     /\ Cardinality({j \in 1..(i - 1) : CallEvents[j].ev = "fail"}) = k
     /\ Cardinality({j \in 1..(i - 1) : CallEvents[j].ev = "invoke"}) = k
     /\ Len(CallEvents) > i
     /\ CallEvents[i + 1].ev = "sleep"
     /\ Len(CallEvents) > i + 1 =>
          /\ CallEvents[i + 2].ev = "invoke"
          /\ CallEvents[i + 2].k = k

\* C24 (ordering of the retry loop): the k-th onRetry call receives attempt
\* number k and the error of the k-th failed invocation, comes after that
\* failure and before the (k+1)-th invocation, with exactly one backoff
\* sleep between them; between two invocations there is exactly one
\* onRetry call; once an invocation has succeeded the call has returned its
\* value and nothing follows.
C24_RetryLoopOrder ==
  /\ \A i \in 1..Len(CallEvents) :
       /\ CallEvents[i].ev = "onRetry" => OnRetryInOrder(i)
       /\ (CallEvents[i].ev = "invoke" /\ i > 1) =>
            /\ CallEvents[i - 1].ev = "sleep"
            /\ i > 2 /\ CallEvents[i - 2].ev = "onRetry"
       /\ CallEvents[i].ev = "resolve" =>
            /\ i = Len(CallEvents)
            /\ rPc = "returned"
            /\ rOutcome.kind = "return"
            /\ rOutcome.from = CallEvents[i].k
  /\ rPc = "sleeping" => CallEvents[Len(CallEvents)].ev = "sleep"

\* C24 witness: two failures with different errors, each reported to
\* onRetry, then the third invocation succeeded.
C24_Witness ==
  /\ rPc = "returned"
  /\ Cardinality(EventsOf("onRetry")) = 2
  /\ \E i, j \in EventsOf("onRetry") :
       /\ i < j /\ rLog[i].err # rLog[j].err
       /\ rLog[i].k = 1 /\ rLog[j].k = 2
  /\ rLog[Len(rLog)].ev = "resolve"
  /\ rLog[Len(rLog)].k = 2

\* C30, as stated: once the operation of an attempt has settled, during
\* the onRetry call and the backoff sleep in particular, the attempt's
\* timer is no longer armed and cannot fire.
C30_TimerOnlyWhilePending ==
  /\ [](rPc # "running" => rArmed = {})
  /\ [][\A k \in 0..MaxRetries :
          (k \in rArmed /\ k \notin rArmed' /\ k \in rAborted' \ rAborted) =>
            (rPc = "running" /\ rAttempt = k)]_vars

\* C30: the state that refutes it.  The operation of attempt 0 has failed,
\* the call is in its backoff sleep, and the timer of attempt 0 is pending.
C30_ArmedDuringSleep ==
  /\ rPc = "sleeping"
  /\ rAttempt = 0
  /\ rArmed = {0}

\* C30: the timer of attempt 0 fired during the backoff sleep and aborted
\* the controller of an operation that had settled.
C30_FiredDuringSleep ==
  /\ rPc = "sleeping"
  /\ rAttempt = 0
  /\ rAborted = {0}
  /\ \E i \in EventsOf("fire") : \E j \in EventsOf("sleep") : j < i

---------------------------------------------------------------------------
(* getBackoffMs: claim C25 (SpecBackoff) *)

\* C25 (backoff growth): the delay computed for attempt a lies in
\* [200 * 2^a, 200 * 2^a + 120], and the delay computed for attempt a + 1
\* is strictly greater than the delay computed for attempt a, whatever the
\* two jitter draws.
C25_BackoffGrowth ==
  bAttempt >= 0 =>
    /\ bDelay >= 200 * Pow2(bAttempt)
    /\ bDelay <= 200 * Pow2(bAttempt) + 120
    /\ bAttempt >= 1 => bDelay > bPrev

\* C25 witness: the closest two successive delays come, the largest jitter
\* for attempt 0 and none for attempt 1.
C25_Witness ==
  /\ bAttempt = 1
  /\ bPrev = 320
  /\ bDelay = 400

---------------------------------------------------------------------------
(* consumeRateLimit called with any options: claims C26-C28 (SpecConsume) *)

\* The step is a call of consumeRateLimit.  (A step that changes nothing
\* is no step; the only call that changes nothing is a repeated refusal of
\* the same options, which leaves the store alone.)
ConsumeStep == rlLast'.called

ValidOptions(call) == call.limit >= 1 /\ call.windowMs >= 1000

\* The status of the response a route's catch block (handleRouteError)
\* makes of what the call threw.
SurfacedStatus(call) ==
  LET context == createRouteContext(Undefined, call.storeKey[1], "req-1")
      thrown == IF call.out.kind = "Error"
                THEN PlainError("Error", "Rate limit must be >= 1")
                ELSE HttpRouteError("Too many requests", call.out.status,
                                    Some(call.out.code), Undefined,
                                    call.out.headers)
  IN handleRouteError(thrown, context).response.status

\* C26 (precondition failure leaves the limiter untouched): a call with
\* limit < 1 or windowMs < 1000 throws a plain Error, which a route answers
\* with 500 and not 429, and the store is exactly as before the call: no
\* entry created, counted or swept; a call with valid options never throws
\* a plain Error.
C26_PreconditionFrame ==
  [][ConsumeStep =>
       /\ ~ValidOptions(rlLast') =>
            /\ rlLast'.out.kind = "Error"
            /\ SurfacedStatus(rlLast') = 500
            /\ RATE_LIMIT_STORE' = RATE_LIMIT_STORE
       /\ ValidOptions(rlLast') => rlLast'.out.kind # "Error"]_vars

\* C26 witness: a call with limit 0 was refused while the store held an
\* expired entry of its own key and an expired entry of another key; both
\* are still there.
C26_Witness ==
  /\ rlLast.called
  /\ rlLast.limit = 0
  /\ rlLast.out.kind = "Error"
  /\ rlLast.hadEntry
  /\ rlLast.before.resetAt <= rlLast.now
  /\ RATE_LIMIT_STORE = rlLast.storeBefore
  /\ \E k \in DOMAIN RATE_LIMIT_STORE :
       k # rlLast.storeKey /\ RATE_LIMIT_STORE[k].resetAt <= rlLast.now

\* C26, second case: the window is below 1000 ms, the limit is valid.
C26_WitnessWindow ==
  /\ rlLast.called
  /\ rlLast.limit >= 1
  /\ rlLast.windowMs = 999
  /\ rlLast.out.kind = "Error"
  /\ RATE_LIMIT_STORE # <<>>

OtherKeys(call) == ConsumeKeys \ {call.storeKey}

\* C27 (sweep and frame): a call with valid options on one key at `now`
\* changes the entries of the other keys only by deleting those whose
\* resetAt <= now; every other unexpired entry keeps its count and resetAt,
\* no entry of another key is created, and after the call the store holds
\* no entry with resetAt <= now.
C27_SweepAndFrame ==
  [][(ConsumeStep /\ ValidOptions(rlLast')) =>
       /\ \A k \in OtherKeys(rlLast') :
            /\ (k \in DOMAIN RATE_LIMIT_STORE
                  /\ RATE_LIMIT_STORE[k].resetAt > rlLast'.now) =>
                 /\ k \in DOMAIN RATE_LIMIT_STORE'
                 /\ RATE_LIMIT_STORE'[k] = RATE_LIMIT_STORE[k]
            /\ (k \in DOMAIN RATE_LIMIT_STORE
                  /\ RATE_LIMIT_STORE[k].resetAt <= rlLast'.now) =>
                 k \notin DOMAIN RATE_LIMIT_STORE'
            /\ k \notin DOMAIN RATE_LIMIT_STORE =>
                 k \notin DOMAIN RATE_LIMIT_STORE'
       /\ \A k \in DOMAIN RATE_LIMIT_STORE' :
            RATE_LIMIT_STORE'[k].resetAt > rlLast'.now]_vars

\* C27 witness: the call counted its own key in a running window, swept
\* the entry of a second key, which ended exactly now, and left the entry of
\* a third key, still running, as it was.
C27_Witness ==
  /\ rlLast.called
  /\ ValidOptions(rlLast)
  /\ rlLast.hadEntry /\ rlLast.before.resetAt > rlLast.now
  /\ \E swept, kept \in DOMAIN rlLast.storeBefore \ {rlLast.storeKey} :
       /\ rlLast.storeBefore[swept].resetAt = rlLast.now
       /\ swept \notin DOMAIN RATE_LIMIT_STORE
       /\ rlLast.storeBefore[kept].resetAt > rlLast.now
       /\ rlLast.storeBefore[kept].count >= 2
       /\ kept \in DOMAIN RATE_LIMIT_STORE
       /\ RATE_LIMIT_STORE[kept] = rlLast.storeBefore[kept]

\* The call began a window: its key had no entry, or one that had ended.
BeganWindow(call) == ~call.hadEntry \/ call.now >= call.before.resetAt

\* C28 (resetAt never moves within a window): the resetAt of a key changes
\* only when a call begins a new window (no entry, or now >= resetAt),
\* and then the entry is {count: 1, resetAt: now + windowMs}; every other
\* valid call, a refused one included, adds exactly 1 to the count and
\* leaves resetAt as it was; every stored entry has count >= 1.
C28_ResetAtFixed ==
  /\ [](\A k \in DOMAIN RATE_LIMIT_STORE : RATE_LIMIT_STORE[k].count >= 1)
  /\ [][(ConsumeStep /\ ValidOptions(rlLast')) =>
          LET key == rlLast'.storeKey
          IN /\ key \in DOMAIN RATE_LIMIT_STORE'
             /\ BeganWindow(rlLast') =>
                  /\ RATE_LIMIT_STORE'[key].count = 1
                  /\ RATE_LIMIT_STORE'[key].resetAt =
                       rlLast'.now + rlLast'.windowMs
                  /\ rlLast'.out.kind = "return"
             /\ ~BeganWindow(rlLast') =>
                  /\ key \in DOMAIN RATE_LIMIT_STORE
                  /\ RATE_LIMIT_STORE'[key].count =
                       RATE_LIMIT_STORE[key].count + 1
                  /\ RATE_LIMIT_STORE'[key].resetAt =
                       RATE_LIMIT_STORE[key].resetAt]_vars
  /\ [][\A k \in ConsumeKeys :
          (k \in DOMAIN RATE_LIMIT_STORE /\ k \in DOMAIN RATE_LIMIT_STORE'
             /\ RATE_LIMIT_STORE'[k].resetAt # RATE_LIMIT_STORE[k].resetAt) =>
            /\ ConsumeStep /\ rlLast'.storeKey = k
            /\ BeganWindow(rlLast')]_vars

\* C28 witness: a client already refused is refused again later in the
\* same window; the count went up and the end of the window is where the
\* first call of the window put it.
C28_Witness ==
  /\ rlLast.called
  /\ ValidOptions(rlLast)
  /\ rlLast.out.kind = "HttpRouteError"
  /\ rlLast.before.count > rlLast.limit
  /\ rlLast.now > 0
  /\ RATE_LIMIT_STORE[rlLast.storeKey].count = rlLast.before.count + 1
  /\ RATE_LIMIT_STORE[rlLast.storeKey].resetAt = rlLast.before.resetAt
  /\ rlLast.before.resetAt \in {1000, 1500}

---------------------------------------------------------------------------
(* Route handlers: claim C29 (SpecRoutes) *)

\* The step is the head of the handler of a request, or its rest.
Begins(slot) == aRequests[slot].pc = "idle" /\ aRequests'[slot].pc # "idle"

Finishes(slot) ==
  aRequests[slot].pc = "awaitSession" /\ aRequests'[slot].pc = "answered"

\* The request whose handler's head ran in this step, as the step left it.
Begun(slot) ==
  IF aRequests'[slot].pc = "answered"
  THEN [handler |-> aLast'.handler, credentials |-> aLast'.credentials]
  ELSE [handler |-> aRequests'[slot].handler,
        credentials |-> aRequests'[slot].credentials]

\* The composite key the limiter counts a request under.
QuotaKey(request) ==
  StoreKey(RoutePath(request.handler),
           getClientRateLimitKey(RequestHeaders(request.credentials)))

\* One unit of the key's quota is taken: a window begins with count 1, or
\* the count of the running window goes up by one.
UnitConsumed(key) ==
  /\ key \in DOMAIN aStore'
  /\ IF key \in DOMAIN aStore /\ aStore[key].resetAt > aClock
     THEN /\ aStore'[key].count = aStore[key].count + 1
          /\ aStore'[key].resetAt = aStore[key].resetAt
     ELSE /\ aStore'[key].count = 1
          /\ aStore'[key].resetAt =
               aClock + aEnv.API_RATE_LIMIT_WINDOW_SECONDS * 1000

C29_WitnessNotFound ==
  /\ aLast.present
  /\ aLast.response.status = 404
  /\ QuotaKey(aLast) \in DOMAIN aStore
  /\ aStore[QuotaKey(aLast)].count = 2

\* A request over its limit was answered 429 and was counted.
C29_WitnessRefused ==
  /\ aLast.present
  /\ aLast.response.status = 429
  /\ ~aLast.sessionAwaited
  /\ QuotaKey(aLast) \in DOMAIN aStore
  /\ aStore[QuotaKey(aLast)].count > aLast.limit

=============================================================================
